---- MODULE Spec2Model ----
(***************************************************************************)
(* Protocol engine of the UHF RFID reader driver (src/src/reader.rs):      *)
(* frame construction, response validation, and the streaming poll loops.  *)
(* Bytes are integers 0..255; byte sequences are TLA+ sequences (1-based,  *)
(* so Rust index i is TLA+ index i + 1).                                   *)
(***************************************************************************)
EXTENDS Integers, Sequences, FiniteSets, TLC

\* ------------------------------------------------------------------------
\* Protocol constants (reader.rs 16..58)
\* ------------------------------------------------------------------------
HEADER == 187
END == 126
CMD_TYPE == 0
RESP_TYPE_NOTIFICATION == 1
RESP_TYPE_TAG == 2

GET_FIRMWARE == 3
SINGLE_POLL == 34
MULTIPLE_POLL == 39
STOP_MULTIPLE_POLL == 40
SET_TX_POWER == 182
SET_REGION == 7
GET_SELECT_PARAM == 11
SET_SELECT_PARAM == 12
SET_SELECT_MODE == 18
GET_TX_POWER == 183
GET_REGION == 8
GET_QUERY_PARAM == 13
SET_QUERY_PARAM == 14
SET_BAUD_RATE == 17
INSERT_CHANNEL == 169
GET_CHANNEL == 170
SET_CHANNEL == 171
SET_AUTO_FREQ_HOP == 173
SET_CONTINUOUS_CARRIER == 176
READ_TAG_DATA == 57
WRITE_TAG_DATA == 73
LOCK_TAG == 130
KILL_TAG == 101
INVENTORY_BUFFER == 24
GET_BUFFER_DATA == 41
CLEAR_BUFFER == 42
GET_RF_LINK_PROFILE == 106
SET_RF_LINK_PROFILE == 105
BLOCK_PERMALOCK == 211
NXP_CHANGE_CONFIG == 224
NXP_READ_PROTECT == 225
NXP_RESET_READ_PROTECT == 226
NXP_CHANGE_EAS == 227
NXP_EAS_ALARM == 228
IMPINJ_MONZA_QT == 229
SET_READER_SENSITIVITY == 240
GET_READER_SENSITIVITY == 241

MIN_POWER_DBM == 18
MAX_POWER_DBM == 26

\* Value of the end-of-round notification's command byte and status byte.
END_ROUND_CMD == 255
END_ROUND_STATUS == 21

\* Largest parameter count the 16-bit length field of a frame can carry.
U16_MAX == 65535

\* ------------------------------------------------------------------------
\* Bounds of the model
\* ------------------------------------------------------------------------
\* Longest parameter sequence enumerated byte by byte for create_command.
MaxParamLen == 3
\* Largest number of pieces (frames, garbage runs) a transport stream holds.
MaxPieces == 2
\* The same where the polls are checked for termination.
MaxFairPieces == 1

\* ------------------------------------------------------------------------
\* Byte arithmetic
\* ------------------------------------------------------------------------
Byte == 0..255

\* u8::wrapping_add
WrappingAdd(a, b) == (a + b) % 256

\* Left fold of wrapping_add over s[lo..hi], starting from acc.  The
\* accumulator is threaded from left to right as Iterator::fold does; the
\* range is halved only to keep the depth of evaluation logarithmic.
RECURSIVE FoldWrappingAdd(_, _, _, _)
FoldWrappingAdd(s, lo, hi, acc) ==
    IF lo > hi THEN acc
    ELSE IF lo = hi THEN WrappingAdd(acc, s[lo])
    ELSE LET mid == (lo + hi) \div 2
             left == FoldWrappingAdd(s, lo, mid, acc)
         IN IF left \in Byte THEN FoldWrappingAdd(s, mid + 1, hi, left) ELSE acc

\* Sum modulo 256 of a byte sequence, by index (independent of the fold).
RECURSIVE SumOfBytes(_, _, _)
SumOfBytes(s, lo, hi) ==
    IF lo > hi THEN 0
    ELSE IF lo = hi THEN s[lo] % 256
    ELSE LET mid == (lo + hi) \div 2
         IN (SumOfBytes(s, lo, mid) + SumOfBytes(s, mid + 1, hi)) % 256

\* `x as u16` for a usize x.
AsU16(x) == x % 65536
\* `x as u8`
AsU8(x) == x % 256

\* a & b and a | b on unsigned integers, bit by bit.
RECURSIVE BitAnd(_, _)
BitAnd(a, b) ==
    IF a = 0 \/ b = 0 THEN 0
    ELSE (a % 2) * (b % 2) + 2 * BitAnd(a \div 2, b \div 2)

RECURSIVE BitOr(_, _)
BitOr(a, b) ==
    IF a = 0 THEN b
    ELSE IF b = 0 THEN a
    ELSE (IF a % 2 = 1 \/ b % 2 = 1 THEN 1 ELSE 0)
         + 2 * BitOr(a \div 2, b \div 2)

\* a << n on an unsigned integer of the given width (n < width): the bits
\* shifted out are lost.
Shl(a, n, width) == (a * 2^n) % 2^width
\* a << n where the type (u32, usize) is wide enough to keep every bit of a.
ShlWide(a, n) == a * 2^n
\* a >> n
Shr(a, n) == a \div 2^n

\* ------------------------------------------------------------------------
\* Frame Codec: create_command (reader.rs 1410..1425)
\* ------------------------------------------------------------------------
\* create_command with the length written as a single byte (high byte lost).
create_command_len8(command, params) ==
    LET lsb == AsU8(Len(params))
        checksum == FoldWrappingAdd(<<CMD_TYPE, command, 0, lsb>> \o params,
                                    1, 4 + Len(params), 0)
    IN <<HEADER, CMD_TYPE, command, 0, lsb>> \o params \o <<checksum, END>>

\* create_command with the header byte taken into the checksum.
create_command_checksum_header(command, params) ==
    LET param_len == AsU16(Len(params))
        msb == AsU8(param_len \div 256)
        lsb == AsU8(param_len % 256)
        checksum == FoldWrappingAdd(<<HEADER, CMD_TYPE, command, msb, lsb>> \o params,
                                    1, 5 + Len(params), 0)
    IN <<HEADER, CMD_TYPE, command, msb, lsb>> \o params \o <<checksum, END>>

create_command(command, params) ==
    LET param_len == AsU16(Len(params))
        msb == AsU8(param_len \div 256)
        lsb == AsU8(param_len % 256)
        checksum == FoldWrappingAdd(<<CMD_TYPE, command, msb, lsb>> \o params,
                                    1, 4 + Len(params), 0)
    IN <<HEADER, CMD_TYPE, command, msb, lsb>> \o params \o <<checksum, END>>

\* ------------------------------------------------------------------------
\* Results (Result<_, UhfError>, types.rs UhfError)
\* ------------------------------------------------------------------------
\* shape tells what the Ok value is: "unit" for Ok(()), "none"/"some" for an
\* Option, "string", "count", "tags".
Ok(shape, value) == [kind |-> "Ok", shape |-> shape, value |-> value]
Err(kind) == [kind |-> kind, shape |-> "error", value |-> <<>>]
\* An error whose message is formatted from a byte of the response
\* ("... failed with error code: 0x{:02X}", e.g. reader.rs 836..840).
ErrCode(kind, code) == [kind |-> kind, shape |-> "error", value |-> <<code>>]
NoResult == [kind |-> "pending", shape |-> "pending", value |-> <<>>]
\* The call did not return: an index or a range was out of bounds, or an
\* arithmetic overflow was caught, and the thread panicked.
Panic == [kind |-> "panic", shape |-> "panic", value |-> <<>>]

IsOk(r) == r.kind = "Ok"

\* ------------------------------------------------------------------------
\* bytes_to_hex (types.rs 407..409): two uppercase hex digits per byte
\* ------------------------------------------------------------------------
HexDigits == <<"0", "1", "2", "3", "4", "5", "6", "7",
               "8", "9", "A", "B", "C", "D", "E", "F">>

RECURSIVE bytes_to_hex(_)
bytes_to_hex(bytes) ==
    IF bytes = <<>> THEN <<>>
    ELSE <<HexDigits[(bytes[1] \div 16) + 1], HexDigits[(bytes[1] % 16) + 1]>>
         \o bytes_to_hex(Tail(bytes))

\* TagInfo (types.rs 5..8): the EPC as a string of characters, and the RSSI.
TagInfo(epc, rssi) == [epc |-> epc, rssi |-> rssi]

\* Equality of all fields, as a derived PartialEq would compare.
TagInfo_eq_derived(a, b) == a.epc = b.epc /\ a.rssi = b.rssi

\* PartialEq for TagInfo (types.rs 257..261)
TagInfo_eq(a, b) == a.epc = b.epc

\* Rust slice response[a..b] (0-based, b exclusive) of a TLA+ sequence.
Slice(s, a, b) == SubSeq(s, a + 1, b)
\* Rust response[i]
At(s, i) == s[i + 1]

Min(a, b) == IF a < b THEN a ELSE b

\* usize::saturating_sub
SaturatingSub(a, b) == IF a > b THEN a - b ELSE 0

\* ------------------------------------------------------------------------
\* parse_tag (reader.rs 1340..1373)
\* ------------------------------------------------------------------------

\* parse_tag that takes the EPC up to the end of the frame it is given.
parse_tag_to_end(response) ==
    IF Len(response) < 12 THEN Ok("none", <<>>)
    ELSE IF At(response, 0) = HEADER /\ At(response, 1) = RESP_TYPE_TAG THEN
        Ok("some", TagInfo(bytes_to_hex(Slice(response, 8, Len(response))),
                           At(response, 5)))
    ELSE IF At(response, 0) = HEADER THEN Ok("none", <<>>)
    ELSE Err("InvalidResponse")

\* parse_tag reporting no tag where the EPC span runs past the response.
parse_tag_none_on_overrun(response) ==
    IF Len(response) < 12 THEN Ok("none", <<>>)
    ELSE IF At(response, 0) = HEADER /\ At(response, 1) = RESP_TYPE_TAG THEN
        LET data_length == At(response, 4)
            rssi == At(response, 5)
            epc_start == 8
            epc_end == epc_start + SaturatingSub(data_length, 5)
        IN IF epc_end > Len(response) THEN Ok("none", <<>>)
           ELSE Ok("some", TagInfo(bytes_to_hex(Slice(response, epc_start, epc_end)),
                                   rssi))
    ELSE IF At(response, 0) = HEADER THEN Ok("none", <<>>)
    ELSE Err("InvalidResponse")

parse_tag(response) ==
    IF Len(response) < 12 THEN Ok("none", <<>>)
    ELSE IF At(response, 0) = HEADER /\ At(response, 1) = RESP_TYPE_TAG THEN
        LET data_length == At(response, 4)
            rssi == At(response, 5)
            epc_start == 8
            epc_end == epc_start + SaturatingSub(data_length, 5)
        IN IF epc_end > Len(response) THEN Err("InvalidResponse")
           ELSE Ok("some", TagInfo(bytes_to_hex(Slice(response, epc_start, epc_end)),
                                   rssi))
    ELSE IF At(response, 0) = HEADER THEN Ok("none", <<>>)
    ELSE Err("InvalidResponse")

\* ------------------------------------------------------------------------
\* parse_firmware_version (reader.rs 1375..1382)
\* ------------------------------------------------------------------------
REPLACEMENT_CHARACTER == 65533

\* The number of bytes of the UTF-8 sequence a byte starts; 0 for a byte
\* that starts none.
utf8_char_width(b) ==
    IF b < 128 THEN 1
    ELSE IF b \in 194..223 THEN 2
    ELSE IF b \in 224..239 THEN 3
    ELSE IF b \in 240..244 THEN 4
    ELSE 0

\* Is there a continuation byte (10xxxxxx) at index i of s?
IsContinuation(s, i) == i <= Len(s) /\ s[i] \in 128..191

\* May the byte at index i follow the lead byte first of a three-byte or
\* four-byte sequence?  (Overlong forms, surrogates and code points above
\* U+10FFFF are excluded by the second byte.)
SecondByteFits(first, s, i) ==
    /\ i <= Len(s)
    /\ \/ first = 224 /\ s[i] \in 160..191
       \/ first \in 225..236 /\ s[i] \in 128..191
       \/ first = 237 /\ s[i] \in 128..159
       \/ first \in 238..239 /\ s[i] \in 128..191
       \/ first = 240 /\ s[i] \in 144..191
       \/ first \in 241..243 /\ s[i] \in 128..191
       \/ first = 244 /\ s[i] \in 128..143

\* One step of the decoder at index i: how many bytes it takes and whether
\* they are a well-formed sequence.  An ill-formed sequence is taken up to
\* the byte that breaks it (its maximal well-formed prefix, at least 1 byte).
Utf8Step(s, i) ==
    LET first == s[i]
        w == utf8_char_width(first)
    IN IF w = 1 THEN [len |-> 1, valid |-> TRUE]
       ELSE IF w = 2 THEN
           IF IsContinuation(s, i + 1) THEN [len |-> 2, valid |-> TRUE]
           ELSE [len |-> 1, valid |-> FALSE]
       ELSE IF w = 3 THEN
           IF ~SecondByteFits(first, s, i + 1) THEN [len |-> 1, valid |-> FALSE]
           ELSE IF ~IsContinuation(s, i + 2) THEN [len |-> 2, valid |-> FALSE]
           ELSE [len |-> 3, valid |-> TRUE]
       ELSE IF w = 4 THEN
           IF ~SecondByteFits(first, s, i + 1) THEN [len |-> 1, valid |-> FALSE]
           ELSE IF ~IsContinuation(s, i + 2) THEN [len |-> 2, valid |-> FALSE]
           ELSE IF ~IsContinuation(s, i + 3) THEN [len |-> 3, valid |-> FALSE]
           ELSE [len |-> 4, valid |-> TRUE]
       ELSE [len |-> 1, valid |-> FALSE]

\* The code point of the well-formed sequence of n bytes at index i.
Utf8CodePoint(s, i, n) ==
    IF n = 1 THEN s[i]
    ELSE IF n = 2 THEN (s[i] - 192) * 64 + (s[i + 1] - 128)
    ELSE IF n = 3 THEN
        (s[i] - 224) * 4096 + (s[i + 1] - 128) * 64 + (s[i + 2] - 128)
    ELSE (s[i] - 240) * 262144 + (s[i + 1] - 128) * 4096
         + (s[i + 2] - 128) * 64 + (s[i + 3] - 128)

\* String::from_utf8_lossy as the sequence of code points of the string:
\* well-formed sequences are decoded, every ill-formed one becomes one
\* U+FFFD.
RECURSIVE Utf8LossyFrom(_, _)
Utf8LossyFrom(s, i) ==
    IF i > Len(s) THEN <<>>
    ELSE LET step == Utf8Step(s, i)
         IN <<IF step.valid THEN Utf8CodePoint(s, i, step.len)
              ELSE REPLACEMENT_CHARACTER>>
            \o Utf8LossyFrom(s, i + step.len)

from_utf8_lossy(bytes) == Utf8LossyFrom(bytes, 1)

\* Is a..b a range &s[a..b] may take (a <= b <= s.len())?  Any other range
\* panics.
RangeInBounds(s, a, b) == a <= b /\ b <= Len(s)

parse_firmware_version(response) ==
    IF /\ Len(response) > 6
       /\ At(response, 0) = HEADER
       /\ At(response, 1) = RESP_TYPE_NOTIFICATION
    THEN IF RangeInBounds(response, 6, Len(response) - 2)
         THEN Ok("string", from_utf8_lossy(Slice(response, 6, Len(response) - 2)))
         ELSE Panic
    ELSE Err("InvalidResponse")

\* ------------------------------------------------------------------------
\* exec (reader.rs 1384..1408): clear_input, write, read into 100 bytes
\* ------------------------------------------------------------------------
RESPONSE_CAPACITY == 100

\* What the transport does during one exec: whether clear_input and write
\* succeed, and what read yields (ReadError, or the bytes it has to offer).
ReadError == <<"read error">>

TransportOk(bytes) == [clear |-> TRUE, write |-> TRUE, read |-> bytes]

\* The transport calls exec makes, in order, and what it returns.
\* exec writing the command a second time when the first write fails.
exec_retry_write(cmd, t) ==
    IF ~t.clear THEN
        [io |-> <<<<"clear_input">>>>, out |-> Err("Transport"), response |-> <<>>]
    ELSE IF ~t.write THEN
        [io |-> <<<<"clear_input">>, <<"write", cmd>>, <<"write", cmd>>>>,
         out |-> Err("Transport"), response |-> <<>>]
    ELSE IF t.read = ReadError THEN
        [io |-> <<<<"clear_input">>, <<"write", cmd>>, <<"read">>>>,
         out |-> Err("Transport"), response |-> <<>>]
    ELSE
        [io |-> <<<<"clear_input">>, <<"write", cmd>>, <<"read">>>>,
         out |-> Ok("bytes", <<>>),
         response |-> SubSeq(t.read, 1, Min(RESPONSE_CAPACITY, Len(t.read)))]

exec(cmd, t) ==
    IF ~t.clear THEN
        [io |-> <<<<"clear_input">>>>, out |-> Err("Transport"), response |-> <<>>]
    ELSE IF ~t.write THEN
        [io |-> <<<<"clear_input">>, <<"write", cmd>>>>,
         out |-> Err("Transport"), response |-> <<>>]
    ELSE IF t.read = ReadError THEN
        [io |-> <<<<"clear_input">>, <<"write", cmd>>, <<"read">>>>,
         out |-> Err("Transport"), response |-> <<>>]
    ELSE
        [io |-> <<<<"clear_input">>, <<"write", cmd>>, <<"read">>>>,
         out |-> Ok("bytes", <<>>),
         response |-> SubSeq(t.read, 1, Min(RESPONSE_CAPACITY, Len(t.read)))]

\* The check shared by the set_* operations: a notification that echoes the
\* command and carries status 0x00 at offset 5 (e.g. reader.rs 343..352).
StatusOk(response, command) ==
    /\ Len(response) >= 7
    /\ At(response, 0) = HEADER
    /\ At(response, 1) = RESP_TYPE_NOTIFICATION
    /\ At(response, 2) = command
    /\ At(response, 5) = 0

\* ------------------------------------------------------------------------
\* State
\* ------------------------------------------------------------------------
VARIABLES
    cc_command,   \* create_command: the command byte of the call
    cc_params,    \* create_command: the parameters of the call
    cc_frame,     \* create_command: the frame it returned
    op,           \* the public operation last invoked ("none" before any)
    arg,          \* its argument
    io,           \* transport calls made by the single-shot operation
    response,     \* bytes the single-shot operation read
    result,       \* what the operation returned
    pc,           \* streaming poll: where the call stands
    pieces,       \* streaming poll: what the device sends, piece by piece
    pos,          \* streaming poll: bytes of the stream read so far
    buffer,       \* streaming poll: the accumulation buffer
    tag_count,    \* streaming poll: the count the call will return
    tags,         \* multiple_poll / poll_for_duration: the Vec being filled
    delivered,    \* streaming poll: the tags passed to the callback, in order
    expired,      \* streaming poll: the deadline (timeout / max_wait) has passed
    drain_buf,    \* poll_for_duration: what the last drain read put in drain_buf
    fault_mark,   \* Len(delivered) when the first I/O fault was absorbed, or -1
    silent        \* streaming poll: no byte has arrived for more than max_wait

codecVars == <<cc_command, cc_params, cc_frame>>
execVars == <<op, arg, io, response, result>>
pollVars == <<pc, pieces, pos, buffer, tag_count, tags, delivered, expired,
              drain_buf, fault_mark, silent>>
vars == <<cc_command, cc_params, cc_frame, op, arg, io, response, result,
          pc, pieces, pos, buffer, tag_count, tags, delivered, expired,
          drain_buf, fault_mark, silent>>

\* The parts of the state a specification does not use stay at rest.
CodecAtRest == cc_command = 0 /\ cc_params = <<>> /\ cc_frame = <<>>
ExecAtRest ==
    /\ op = "none" /\ arg = 0 /\ io = <<>> /\ response = <<>>
    /\ result = NoResult
PollAtRest ==
    /\ pc = "idle" /\ pieces = <<>> /\ pos = 0 /\ buffer = <<>>
    /\ tag_count = 0 /\ tags = <<>> /\ delivered = <<>>
    /\ expired = FALSE /\ drain_buf = <<>> /\ fault_mark = -1
    /\ silent = FALSE

\* ------------------------------------------------------------------------
\* Single-shot operations
\* ------------------------------------------------------------------------
\* What one call did: the transport calls, the bytes read, the value returned.
Outcome(e, res) == [io |-> e.io, response |-> e.response, result |-> res]
Rejected == [io |-> <<>>, response |-> <<>>, result |-> Err("InvalidParameter")]

\* get_firmware_version (reader.rs 67..70)
get_firmware_version(t) ==
    LET e == exec(create_command(GET_FIRMWARE, <<1>>), t)
    IN IF ~IsOk(e.out) THEN Outcome(e, e.out)
       ELSE Outcome(e, parse_firmware_version(e.response))

\* single_poll (reader.rs 73..76)
single_poll(t) ==
    LET e == exec(create_command(SINGLE_POLL, <<>>), t)
    IN IF ~IsOk(e.out) THEN Outcome(e, e.out)
       ELSE Outcome(e, parse_tag(e.response))

\* set_tx_power that accepts any notification echoing the command.
set_tx_power_nostatus(power_dbm, t) ==
    IF power_dbm < MIN_POWER_DBM \/ power_dbm > MAX_POWER_DBM THEN Rejected
    ELSE
        LET power == power_dbm * 100
            e == exec(create_command(SET_TX_POWER,
                                     <<AsU8(power \div 256), AsU8(power % 256)>>), t)
        IN IF ~IsOk(e.out) THEN Outcome(e, e.out)
           ELSE IF /\ Len(e.response) >= 7
                   /\ At(e.response, 0) = HEADER
                   /\ At(e.response, 2) = SET_TX_POWER
                THEN Outcome(e, Ok("unit", <<>>))
           ELSE Outcome(e, Err("InvalidResponse"))

\* set_tx_power (reader.rs 319..353)
set_tx_power(power_dbm, t) ==
    IF power_dbm < MIN_POWER_DBM THEN Rejected
    ELSE IF power_dbm > MAX_POWER_DBM THEN Rejected
    ELSE
        LET power == power_dbm * 100
            power_msb == AsU8(power \div 256)
            power_lsb == AsU8(power % 256)
            e == exec(create_command(SET_TX_POWER, <<power_msb, power_lsb>>), t)
        IN IF ~IsOk(e.out) THEN Outcome(e, e.out)
           ELSE IF StatusOk(e.response, SET_TX_POWER)
                THEN Outcome(e, Ok("unit", <<>>))
           ELSE Outcome(e, Err("InvalidResponse"))

\* Region codes (types.rs 97..108)
Regions == {1, 2, 3, 4, 6}

\* set_region (reader.rs 582..595)
set_region(region, t) ==
    LET e == exec(create_command(SET_REGION, <<region>>), t)
    IN IF ~IsOk(e.out) THEN Outcome(e, e.out)
       ELSE IF StatusOk(e.response, SET_REGION) THEN Outcome(e, Ok("unit", <<>>))
       ELSE Outcome(e, Err("InvalidResponse"))

\* ------------------------------------------------------------------------
\* Reply checks the operations share
\* ------------------------------------------------------------------------
\* The tail of an operation answered by a status notification: a transport
\* error of exec is passed on; otherwise Ok(()) exactly for a notification
\* that echoes the command with status 0x00 (e.g. set_channel, reader.rs
\* 618..632).
StatusReply(e, command) ==
    IF ~IsOk(e.out) THEN Outcome(e, e.out)
    ELSE IF StatusOk(e.response, command) THEN Outcome(e, Ok("unit", <<>>))
    ELSE Outcome(e, Err("InvalidResponse"))

\* The same where a non-zero byte at offset 5 is put into the error message
\* (e.g. lock_tag, reader.rs 868..882).
CodedStatusReply(e, command) ==
    IF ~IsOk(e.out) THEN Outcome(e, e.out)
    ELSE IF StatusOk(e.response, command) THEN Outcome(e, Ok("unit", <<>>))
    ELSE IF Len(e.response) >= 6 /\ At(e.response, 5) # 0
         THEN Outcome(e, ErrCode("InvalidResponse", At(e.response, 5)))
    ELSE Outcome(e, Err("InvalidResponse"))

\* The check of the getters: a notification of at least min_len bytes that
\* echoes the command and declares len parameter bytes (e.g. get_channel,
\* reader.rs 601..607).
DataOk(resp, command, min_len, len) ==
    /\ Len(resp) >= min_len
    /\ At(resp, 0) = HEADER
    /\ At(resp, 1) = RESP_TYPE_NOTIFICATION
    /\ At(resp, 2) = command
    /\ At(resp, 3) = 0
    /\ At(resp, 4) = len

\* ------------------------------------------------------------------------
\* Power, region, channel, link profile, sensitivity, baud rate
\* ------------------------------------------------------------------------
\* get_tx_power rounding to the nearest dBm.
get_tx_power_rounded(t) ==
    LET e == exec(create_command(GET_TX_POWER, <<>>), t)
    IN IF ~IsOk(e.out) THEN Outcome(e, e.out)
       ELSE IF DataOk(e.response, GET_TX_POWER, 8, 2) THEN
           LET power_raw == BitOr(Shl(At(e.response, 5), 8, 16), At(e.response, 6))
               power_dbm == (power_raw + 50) \div 100
           IN Outcome(e, Ok("u16", power_dbm))
       ELSE Outcome(e, Err("InvalidResponse"))

\* get_tx_power (reader.rs 300..316)
get_tx_power(t) ==
    LET e == exec(create_command(GET_TX_POWER, <<>>), t)
    IN IF ~IsOk(e.out) THEN Outcome(e, e.out)
       ELSE IF DataOk(e.response, GET_TX_POWER, 8, 2) THEN
           LET power_raw == BitOr(Shl(At(e.response, 5), 8, 16), At(e.response, 6))
               power_dbm == power_raw \div 100
           IN Outcome(e, Ok("u16", power_dbm))
       ELSE Outcome(e, Err("InvalidResponse"))

\* Region as u8 (types.rs 96..107): the discriminant of a variant.
RegionAsU8(region) ==
    CASE region = "China900" -> 1
      [] region = "Us" -> 2
      [] region = "Europe" -> 3
      [] region = "China800" -> 4
      [] region = "Korea" -> 6

\* Region::try_from falling back to a default for an unknown code.
RegionTryFrom_default(value) ==
    CASE value = 1 -> "China900"
      [] value = 2 -> "Us"
      [] value = 3 -> "Europe"
      [] value = 4 -> "China800"
      [] value = 6 -> "Korea"
      [] OTHER -> "China900"

\* Region::try_from (types.rs 143..156): the variant of a code byte, or
\* "Err" for a byte that is no region code.
RegionTryFrom(value) ==
    CASE value = 1 -> "China900"
      [] value = 2 -> "Us"
      [] value = 3 -> "Europe"
      [] value = 4 -> "China800"
      [] value = 6 -> "Korea"
      [] OTHER -> "Err"

\* get_region (reader.rs 561..576)
get_region(t) ==
    LET e == exec(create_command(GET_REGION, <<>>), t)
    IN IF ~IsOk(e.out) THEN Outcome(e, e.out)
       ELSE IF DataOk(e.response, GET_REGION, 8, 1) THEN
           IF RegionTryFrom(At(e.response, 5)) # "Err"
           THEN Outcome(e, Ok("region", RegionTryFrom(At(e.response, 5))))
           ELSE Outcome(e, Err("InvalidResponse"))
       ELSE Outcome(e, Err("InvalidResponse"))

\* get_channel (reader.rs 598..612)
get_channel(t) ==
    LET e == exec(create_command(GET_CHANNEL, <<>>), t)
    IN IF ~IsOk(e.out) THEN Outcome(e, e.out)
       ELSE IF DataOk(e.response, GET_CHANNEL, 8, 1)
            THEN Outcome(e, Ok("u8", At(e.response, 5)))
       ELSE Outcome(e, Err("InvalidResponse"))

\* set_channel (reader.rs 618..632)
set_channel(channel, t) ==
    StatusReply(exec(create_command(SET_CHANNEL, <<channel>>), t), SET_CHANNEL)

\* set_auto_freq_hop (reader.rs 637..651)
set_auto_freq_hop(enabled, t) ==
    LET param == IF enabled THEN 255 ELSE 0
    IN StatusReply(exec(create_command(SET_AUTO_FREQ_HOP, <<param>>), t),
                   SET_AUTO_FREQ_HOP)

\* insert_channel (reader.rs 656..670)
insert_channel(channel, t) ==
    StatusReply(exec(create_command(INSERT_CHANNEL, <<channel>>), t),
                INSERT_CHANNEL)

\* set_continuous_carrier (reader.rs 675..689)
set_continuous_carrier(enabled, t) ==
    LET param == IF enabled THEN 255 ELSE 0
    IN StatusReply(exec(create_command(SET_CONTINUOUS_CARRIER, <<param>>), t),
                   SET_CONTINUOUS_CARRIER)

\* set_baud_rate (reader.rs 700..719)
set_baud_rate(rate_index, t) ==
    IF rate_index > 2 THEN Rejected
    ELSE StatusReply(exec(create_command(SET_BAUD_RATE, <<rate_index>>), t),
                     SET_BAUD_RATE)

\* RfLinkProfile as u8 (types.rs 344..355): the discriminant of a variant.
RfLinkProfileAsU8(profile) ==
    CASE profile = "Fm0_40kHz" -> 208
      [] profile = "Fm0_400kHz" -> 209
      [] profile = "Miller4_250kHz" -> 210
      [] profile = "Miller4_300kHz" -> 211
      [] profile = "Miller2_40kHzDrm" -> 212

\* RfLinkProfile::try_from (types.rs 358..370): the variant of a code byte,
\* or "Err".
RfLinkProfileTryFrom(value) ==
    CASE value = 208 -> "Fm0_40kHz"
      [] value = 209 -> "Fm0_400kHz"
      [] value = 210 -> "Miller4_250kHz"
      [] value = 211 -> "Miller4_300kHz"
      [] value = 212 -> "Miller2_40kHzDrm"
      [] OTHER -> "Err"

\* get_rf_link_profile (reader.rs 1030..1050)
get_rf_link_profile(t) ==
    LET e == exec(create_command(GET_RF_LINK_PROFILE, <<>>), t)
    IN IF ~IsOk(e.out) THEN Outcome(e, e.out)
       ELSE IF DataOk(e.response, GET_RF_LINK_PROFILE, 8, 1) THEN
           IF RfLinkProfileTryFrom(At(e.response, 5)) # "Err"
           THEN Outcome(e, Ok("rf_link_profile",
                              RfLinkProfileTryFrom(At(e.response, 5))))
           ELSE Outcome(e, Err("InvalidResponse"))
       ELSE Outcome(e, Err("InvalidResponse"))

\* set_rf_link_profile (reader.rs 1054..1070)
set_rf_link_profile(profile, t) ==
    StatusReply(exec(create_command(SET_RF_LINK_PROFILE, <<profile>>), t),
                SET_RF_LINK_PROFILE)

\* get_reader_sensitivity (reader.rs 1075..1089)
get_reader_sensitivity(t) ==
    LET e == exec(create_command(GET_READER_SENSITIVITY, <<>>), t)
    IN IF ~IsOk(e.out) THEN Outcome(e, e.out)
       ELSE IF DataOk(e.response, GET_READER_SENSITIVITY, 8, 1)
            THEN Outcome(e, Ok("u8", At(e.response, 5)))
       ELSE Outcome(e, Err("InvalidResponse"))

\* set_reader_sensitivity (reader.rs 1095..1111)
set_reader_sensitivity(sensitivity, t) ==
    StatusReply(exec(create_command(SET_READER_SENSITIVITY, <<sensitivity>>), t),
                SET_READER_SENSITIVITY)

\* ------------------------------------------------------------------------
\* Select and Query parameters
\* ------------------------------------------------------------------------
\* u32::to_be_bytes and u32::from_be_bytes
U32ToBeBytes(x) ==
    <<Shr(x, 24) % 256, Shr(x, 16) % 256, Shr(x, 8) % 256, x % 256>>
U32FromBeBytes(b) == ((b[1] * 256 + b[2]) * 256 + b[3]) * 256 + b[4]

\* SelectParams (types.rs 78..92); the enums are their discriminants.
SelectParams(target, action, mem_bank, pointer, mask, truncate) ==
    [target |-> target, action |-> action, mem_bank |-> mem_bank,
     pointer |-> pointer, mask |-> mask, truncate |-> truncate]

\* set_select_param (reader.rs 382..424)
set_select_param(params, t) ==
    IF Len(params.mask) > 32 THEN Rejected
    ELSE
        LET sel_param == BitOr(BitOr(Shl(params.target, 5, 8),
                                     Shl(params.action, 2, 8)),
                               params.mem_bank)
            ptr_bytes == U32ToBeBytes(params.pointer)
            mask_len_bits == AsU8(Len(params.mask) * 8)
            truncate == IF params.truncate THEN 128 ELSE 0
            cmd_params == <<sel_param>> \o ptr_bytes
                          \o <<mask_len_bits, truncate>> \o params.mask
        IN StatusReply(exec(create_command(SET_SELECT_PARAM, cmd_params), t),
                       SET_SELECT_PARAM)

\* get_select_param with the target codes 5, 6 and 7 refused.
get_select_param_strict_target(t, overflow_checks) ==
    LET e == exec(create_command(GET_SELECT_PARAM, <<>>), t)
        resp == e.response
    IN IF ~IsOk(e.out) THEN Outcome(e, e.out)
       ELSE IF \/ Len(resp) < 14
               \/ At(resp, 0) # HEADER
               \/ At(resp, 1) # RESP_TYPE_NOTIFICATION
               \/ At(resp, 2) # GET_SELECT_PARAM
               \/ BitAnd(Shr(At(resp, 5), 5), 7) > 4
            THEN Outcome(e, Err("InvalidResponse"))
       ELSE
           LET sel_param == At(resp, 5)
               target == BitAnd(Shr(sel_param, 5), 7)
               action == BitAnd(Shr(sel_param, 2), 7)
               mem_bank == BitAnd(sel_param, 3)
               pointer == U32FromBeBytes(Slice(resp, 6, 10))
               mask_len_bits == At(resp, 10)
               truncate == At(resp, 11) = 128
               mask_len_bytes == AsU8(mask_len_bits + 7) \div 8
               mask_start == 12
               mask_end == mask_start + mask_len_bytes
           IN IF mask_len_bits + 7 > 255 /\ overflow_checks
              THEN Outcome(e, Panic)
              ELSE IF Len(resp) < mask_end + 2
              THEN Outcome(e, Err("InvalidResponse"))
              ELSE Outcome(e, Ok("select_params",
                                 SelectParams(target, action, mem_bank, pointer,
                                              Slice(resp, mask_start, mask_end),
                                              truncate)))

\* get_select_param (reader.rs 427..492).  mask_len_bits + 7 is a u8
\* addition: when it overflows, a build with overflow checks panics and one
\* without them wraps.
get_select_param(t, overflow_checks) ==
    LET e == exec(create_command(GET_SELECT_PARAM, <<>>), t)
        resp == e.response
    IN IF ~IsOk(e.out) THEN Outcome(e, e.out)
       ELSE IF \/ Len(resp) < 14
               \/ At(resp, 0) # HEADER
               \/ At(resp, 1) # RESP_TYPE_NOTIFICATION
               \/ At(resp, 2) # GET_SELECT_PARAM
            THEN Outcome(e, Err("InvalidResponse"))
       ELSE
           LET sel_param == At(resp, 5)
               target_bits == BitAnd(Shr(sel_param, 5), 7)
               target == IF target_bits \in 0..4 THEN target_bits ELSE 0
               action == BitAnd(Shr(sel_param, 2), 7)
               mem_bank == BitAnd(sel_param, 3)
               pointer == U32FromBeBytes(Slice(resp, 6, 10))
               mask_len_bits == At(resp, 10)
               truncate == At(resp, 11) = 128
               mask_len_bytes == AsU8(mask_len_bits + 7) \div 8
               mask_start == 12
               mask_end == mask_start + mask_len_bytes
           IN IF mask_len_bits + 7 > 255 /\ overflow_checks
              THEN Outcome(e, Panic)
              ELSE IF Len(resp) < mask_end + 2
              THEN Outcome(e, Err("InvalidResponse"))
              ELSE Outcome(e, Ok("select_params",
                                 SelectParams(target, action, mem_bank, pointer,
                                              Slice(resp, mask_start, mask_end),
                                              truncate)))

\* set_select_mode (reader.rs 499..512): the command byte of the response
\* is not looked at.
set_select_mode(mode, t) ==
    LET e == exec(create_command(SET_SELECT_MODE, <<mode>>), t)
    IN IF ~IsOk(e.out) THEN Outcome(e, e.out)
       ELSE IF /\ Len(e.response) >= 7
               /\ At(e.response, 0) = HEADER
               /\ At(e.response, 1) = RESP_TYPE_NOTIFICATION
               /\ At(e.response, 5) = 0
            THEN Outcome(e, Ok("unit", <<>>))
       ELSE Outcome(e, Err("InvalidResponse"))

\* QueryParams (types.rs 159..170); the enums are their discriminants.
QueryParams(sel, session, target, q) ==
    [sel |-> sel, session |-> session, target |-> target, q |-> q]

\* QueryParams::to_bytes (types.rs 185..191)
QueryParams_to_bytes(p) ==
    LET byte0 == BitOr(BitOr(16, Shl(p.sel, 2, 8)), p.session)
        byte1 == BitOr(Shl(p.target, 7, 8), Shl(BitAnd(p.q, 15), 3, 8))
    IN <<byte0, byte1>>

\* QueryParams::from_bytes reading three bits of Q.
QueryParams_from_bytes_q3(bytes) ==
    LET sel_bits == BitAnd(Shr(bytes[1], 2), 3)
        sel == IF sel_bits \in {0, 1} THEN 0 ELSE sel_bits
        session == BitAnd(bytes[1], 3)
        target == IF BitAnd(Shr(bytes[2], 7), 1) = 0 THEN 0 ELSE 1
        q == BitAnd(Shr(bytes[2], 3), 7)
    IN QueryParams(sel, session, target, q)

\* QueryParams::from_bytes (types.rs 194..221)
QueryParams_from_bytes(bytes) ==
    LET sel_bits == BitAnd(Shr(bytes[1], 2), 3)
        sel == IF sel_bits \in {0, 1} THEN 0 ELSE sel_bits
        session == BitAnd(bytes[1], 3)
        target == IF BitAnd(Shr(bytes[2], 7), 1) = 0 THEN 0 ELSE 1
        q == BitAnd(Shr(bytes[2], 3), 15)
    IN QueryParams(sel, session, target, q)

\* get_query_param (reader.rs 519..533)
get_query_param(t) ==
    LET e == exec(create_command(GET_QUERY_PARAM, <<>>), t)
    IN IF ~IsOk(e.out) THEN Outcome(e, e.out)
       ELSE IF DataOk(e.response, GET_QUERY_PARAM, 9, 2)
            THEN Outcome(e, Ok("query_params",
                               QueryParams_from_bytes(<<At(e.response, 5),
                                                        At(e.response, 6)>>)))
       ELSE Outcome(e, Err("InvalidResponse"))

\* set_query_param (reader.rs 538..558)
set_query_param(params, t) ==
    IF params.q > 15 THEN Rejected
    ELSE StatusReply(exec(create_command(SET_QUERY_PARAM,
                                         QueryParams_to_bytes(params)), t),
                     SET_QUERY_PARAM)

\* ------------------------------------------------------------------------
\* Tag memory operations
\* ------------------------------------------------------------------------
\* read_tag_data (reader.rs 735..786)
read_tag_data(access_password, mem_bank, word_ptr, word_count, t) ==
    IF word_count = 0 THEN Rejected
    ELSE
        LET params == access_password \o <<mem_bank, word_ptr, word_count>>
            e == exec(create_command(READ_TAG_DATA, params), t)
            resp == e.response
        IN IF ~IsOk(e.out) THEN Outcome(e, e.out)
           ELSE IF /\ Len(resp) >= 8
                   /\ At(resp, 0) = HEADER
                   /\ At(resp, 2) = READ_TAG_DATA
           THEN
               IF At(resp, 1) = RESP_TYPE_TAG THEN
                   LET data_len == BitOr(ShlWide(At(resp, 3), 8), At(resp, 4))
                       data_start == 5
                       data_end == data_start + data_len
                   IN IF Len(resp) >= data_end + 2
                      THEN Outcome(e, Ok("bytes", Slice(resp, data_start, data_end)))
                      ELSE Outcome(e, Err("InvalidResponse"))
               ELSE IF At(resp, 1) = RESP_TYPE_NOTIFICATION THEN
                   LET error_code == IF Len(resp) > 5 THEN At(resp, 5) ELSE 255
                   IN Outcome(e, ErrCode("InvalidResponse", error_code))
               ELSE Outcome(e, Err("InvalidResponse"))
           ELSE Outcome(e, Err("InvalidResponse"))

\* write_tag_data without the word-alignment check.
write_tag_data_unaligned(access_password, mem_bank, word_ptr, data, t) ==
    IF data = <<>> THEN Rejected
    ELSE IF Len(data) > 64 THEN Rejected
    ELSE
        LET word_count == AsU8(Len(data) \div 2)
            params == access_password \o <<mem_bank, word_ptr, word_count>> \o data
        IN CodedStatusReply(exec(create_command(WRITE_TAG_DATA, params), t),
                            WRITE_TAG_DATA)

\* write_tag_data (reader.rs 798..845)
write_tag_data(access_password, mem_bank, word_ptr, data, t) ==
    IF data = <<>> THEN Rejected
    ELSE IF Len(data) % 2 # 0 THEN Rejected
    ELSE IF Len(data) > 64 THEN Rejected
    ELSE
        LET word_count == AsU8(Len(data) \div 2)
            params == access_password \o <<mem_bank, word_ptr, word_count>> \o data
        IN CodedStatusReply(exec(create_command(WRITE_TAG_DATA, params), t),
                            WRITE_TAG_DATA)

\* LockPayload (types.rs 294..300); target and action are their discriminants.
LockPayload(target, action) == [target |-> target, action |-> action]

\* LockPayload::to_bytes setting one mask bit per zone.
LockPayload_to_bytes_onebit(p) ==
    LET shift == IF p.target = 1 THEN 0
                 ELSE IF p.target = 2 THEN 2
                 ELSE IF p.target = 3 THEN 4
                 ELSE IF p.target = 4 THEN 6
                 ELSE 8
        mask == Shl(1, shift, 16)
        action == Shl(p.action, shift, 16)
        payload == BitOr(ShlWide(mask, 10), action)
    IN <<BitAnd(Shr(payload, 16), 255),
         BitAnd(Shr(payload, 8), 255),
         BitAnd(payload, 255)>>

\* LockPayload::to_bytes placing the action of every target in the User zone.
LockPayload_to_bytes_action_low(p) ==
    LET shift == IF p.target = 1 THEN 0
                 ELSE IF p.target = 2 THEN 2
                 ELSE IF p.target = 3 THEN 4
                 ELSE IF p.target = 4 THEN 6
                 ELSE 8
        mask == Shl(3, shift, 16)
        action == Shl(p.action, 0, 16)
        payload == BitOr(ShlWide(mask, 10), action)
    IN <<BitAnd(Shr(payload, 16), 255),
         BitAnd(Shr(payload, 8), 255),
         BitAnd(payload, 255)>>

\* LockPayload::to_bytes (types.rs 302..339)
LockPayload_to_bytes(p) ==
    LET shift == IF p.target = 1 THEN 0
                 ELSE IF p.target = 2 THEN 2
                 ELSE IF p.target = 3 THEN 4
                 ELSE IF p.target = 4 THEN 6
                 ELSE 8
        mask == Shl(3, shift, 16)
        action == Shl(p.action, shift, 16)
        payload == BitOr(ShlWide(mask, 10), action)
    IN <<BitAnd(Shr(payload, 16), 255),
         BitAnd(Shr(payload, 8), 255),
         BitAnd(payload, 255)>>

\* lock_tag (reader.rs 855..883)
lock_tag(access_password, lock_payload, t) ==
    LET lock_bytes == LockPayload_to_bytes(lock_payload)
        params == access_password \o lock_bytes
    IN CodedStatusReply(exec(create_command(LOCK_TAG, params), t), LOCK_TAG)

\* kill_tag (reader.rs 892..917)
kill_tag(kill_password, t) ==
    IF kill_password = <<0, 0, 0, 0>> THEN Rejected
    ELSE CodedStatusReply(exec(create_command(KILL_TAG, kill_password), t),
                          KILL_TAG)

\* block_permalock (reader.rs 1124..1160)
block_permalock(access_password, mem_bank, block_ptr, block_range, mask, t) ==
    LET mask_msb == AsU8(Shr(mask, 8))
        mask_lsb == AsU8(BitAnd(mask, 255))
        params == access_password
                  \o <<mem_bank, block_ptr, block_range, mask_msb, mask_lsb>>
    IN CodedStatusReply(exec(create_command(BLOCK_PERMALOCK, params), t),
                        BLOCK_PERMALOCK)

\* ------------------------------------------------------------------------
\* Reader buffer
\* ------------------------------------------------------------------------
\* inventory_buffer (reader.rs 931..956)
inventory_buffer(rounds, t) ==
    IF rounds = 0 THEN Rejected
    ELSE
        LET rounds_msb == AsU8(Shr(rounds, 8))
            rounds_lsb == AsU8(BitAnd(rounds, 255))
        IN StatusReply(exec(create_command(INVENTORY_BUFFER,
                                           <<34, rounds_msb, rounds_lsb>>), t),
                       INVENTORY_BUFFER)

\* The loop of get_buffer_data from offset on (reader.rs 982..1008): the
\* entries it pushes, in order.
RECURSIVE BufferEntries(_, _, _)
BufferEntries(resp, data_len, offset) ==
    IF ~(offset + 4 < Len(resp) - 2) THEN <<>>
    ELSE IF At(resp, offset) = 0 \/ offset >= data_len + 5 THEN <<>>
    ELSE IF ~(offset + 3 < Len(resp)) THEN <<>>
    ELSE
        LET rssi == At(resp, offset)
            epc_len == Min(12, Len(resp) - offset - 3)
        IN IF offset + 3 + epc_len <= Len(resp)
           THEN <<TagInfo(bytes_to_hex(Slice(resp, offset + 3, offset + 3 + epc_len)),
                          rssi)>>
                \o BufferEntries(resp, data_len, offset + 3 + epc_len)
           ELSE <<>>

\* get_buffer_data (reader.rs 961..1011)
get_buffer_data(t) ==
    LET e == exec(create_command(GET_BUFFER_DATA, <<>>), t)
        resp == e.response
    IN IF ~IsOk(e.out) THEN Outcome(e, e.out)
       ELSE IF \/ Len(resp) < 7
               \/ At(resp, 0) # HEADER
               \/ At(resp, 1) # RESP_TYPE_NOTIFICATION
               \/ At(resp, 2) # GET_BUFFER_DATA
            THEN Outcome(e, Err("InvalidResponse"))
       ELSE
           LET data_len == BitOr(ShlWide(At(resp, 3), 8), At(resp, 4))
           IN IF data_len = 1 /\ At(resp, 5) = 0
              THEN Outcome(e, Ok("tags", <<>>))
              ELSE Outcome(e, Ok("tags", BufferEntries(resp, data_len, 5)))

\* clear_buffer (reader.rs 1014..1027)
clear_buffer(t) ==
    StatusReply(exec(create_command(CLEAR_BUFFER, <<>>), t), CLEAR_BUFFER)

\* ------------------------------------------------------------------------
\* Vendor commands
\* ------------------------------------------------------------------------
\* nxp_read_protect (reader.rs 1168..1186)
nxp_read_protect(access_password, t) ==
    CodedStatusReply(exec(create_command(NXP_READ_PROTECT, access_password), t),
                     NXP_READ_PROTECT)

\* nxp_reset_read_protect (reader.rs 1192..1213)
nxp_reset_read_protect(access_password, t) ==
    CodedStatusReply(exec(create_command(NXP_RESET_READ_PROTECT, access_password), t),
                     NXP_RESET_READ_PROTECT)

\* nxp_change_eas (reader.rs 1220..1242)
nxp_change_eas(access_password, enabled, t) ==
    LET params == access_password \o <<IF enabled THEN 1 ELSE 0>>
    IN CodedStatusReply(exec(create_command(NXP_CHANGE_EAS, params), t),
                        NXP_CHANGE_EAS)

\* nxp_eas_alarm (reader.rs 1247..1263): neither the command byte of a
\* response nor a non-zero status makes an error.
nxp_eas_alarm(t) ==
    LET e == exec(create_command(NXP_EAS_ALARM, <<>>), t)
    IN IF ~IsOk(e.out) THEN Outcome(e, e.out)
       ELSE IF Len(e.response) >= 7 /\ At(e.response, 0) = HEADER THEN
           IF At(e.response, 1) = RESP_TYPE_TAG THEN Outcome(e, Ok("bool", TRUE))
           ELSE IF At(e.response, 1) = RESP_TYPE_NOTIFICATION
                THEN Outcome(e, Ok("bool", At(e.response, 5) = 0))
           ELSE Outcome(e, Err("InvalidResponse"))
       ELSE Outcome(e, Err("InvalidResponse"))

\* nxp_change_config (reader.rs 1270..1300)
nxp_change_config(access_password, config_word, t) ==
    LET config_msb == AsU8(Shr(config_word, 8))
        config_lsb == AsU8(BitAnd(config_word, 255))
        params == access_password \o <<config_msb, config_lsb>>
    IN CodedStatusReply(exec(create_command(NXP_CHANGE_CONFIG, params), t),
                        NXP_CHANGE_CONFIG)

\* QtControl (types.rs 374..379) and QtControl::to_byte (types.rs 383..392)
QtControl(short_range, persistence) ==
    [short_range |-> short_range, persistence |-> persistence]

QtControl_to_byte(c) ==
    LET with_short == IF c.short_range THEN BitOr(0, 1) ELSE 0
    IN IF c.persistence THEN BitOr(with_short, 2) ELSE with_short

\* impinj_monza_qt (reader.rs 1308..1338)
impinj_monza_qt(access_password, qt_control, read, t) ==
    LET rw_flag == IF read THEN 0 ELSE 1
        params == access_password \o <<rw_flag, QtControl_to_byte(qt_control)>>
        e == exec(create_command(IMPINJ_MONZA_QT, params), t)
    IN IF ~IsOk(e.out) THEN Outcome(e, e.out)
       ELSE IF /\ Len(e.response) >= 8
               /\ StatusOk(e.response, IMPINJ_MONZA_QT)
            THEN Outcome(e, Ok("u8", At(e.response, 6)))
       ELSE IF Len(e.response) >= 6 /\ At(e.response, 5) # 0
            THEN Outcome(e, ErrCode("InvalidResponse", At(e.response, 5)))
       ELSE Outcome(e, Err("InvalidResponse"))

\* ------------------------------------------------------------------------
\* Frames a device (or line noise) can put on the transport
\* ------------------------------------------------------------------------
\* The checksum the protocol defines for a frame's fields.
FrameChecksum(type, command, len, params) ==
    FoldWrappingAdd(<<type, command, len \div 256, len % 256>> \o params,
                    1, 4 + Len(params), 0)

RawFrame(header, type, command, len, params, checksum) ==
    <<header, type, command, len \div 256, len % 256>> \o params \o <<checksum, END>>

\* A frame whose LEN and checksum are right.
GoodFrame(type, command, params) ==
    RawFrame(HEADER, type, command, Len(params), params,
             FrameChecksum(type, command, Len(params), params))

\* The same frame with its checksum byte off by d.
BadChecksumFrame(type, command, params, d) ==
    RawFrame(HEADER, type, command, Len(params), params,
             (FrameChecksum(type, command, Len(params), params) + d) % 256)

\* A frame that declares len parameter bytes but carries params; its
\* checksum is computed over the fields it carries.
BadLenFrame(type, command, len, params) ==
    RawFrame(HEADER, type, command, len, params,
             FrameChecksum(type, command, len, params))

\* A tag notification: RSSI, PC word, EPC and CRC word; LEN = Len(epc) + 5.
TagParams(rssi, pcw, epc, crc) == <<rssi>> \o pcw \o epc \o crc
TagFrame(command, rssi, pcw, epc, crc) ==
    GoodFrame(RESP_TYPE_TAG, command, TagParams(rssi, pcw, epc, crc))

\* Is s a frame whose byte before END is the 8-bit sum of TYPE, COMMAND,
\* LEN_HI, LEN_LO and the parameter bytes?
ChecksumHolds(s) ==
    /\ Len(s) >= 7
    /\ s[Len(s) - 1] = SumOfBytes(s, 2, Len(s) - 2)

\* Does the declared LEN equal the number of bytes between the length field
\* and CHECKSUM+END?
LenHolds(s) ==
    /\ Len(s) >= 7
    /\ s[4] * 256 + s[5] = Len(s) - 7

\* Responses offered to the single-shot operations.
ExecCommands == {GET_FIRMWARE, SINGLE_POLL, SET_TX_POWER, SET_REGION}

StatusResponses ==
    UNION {{GoodFrame(RESP_TYPE_NOTIFICATION, c, <<0>>),
            GoodFrame(RESP_TYPE_NOTIFICATION, c, <<16>>),
            BadChecksumFrame(RESP_TYPE_NOTIFICATION, c, <<0>>, 1),
            BadLenFrame(RESP_TYPE_NOTIFICATION, c, 5, <<0>>),
            RawFrame(170, RESP_TYPE_NOTIFICATION, c, 1, <<0>>,
                     FrameChecksum(RESP_TYPE_NOTIFICATION, c, 1, <<0>>)),
            GoodFrame(RESP_TYPE_NOTIFICATION, c, <<>>),
            GoodFrame(RESP_TYPE_TAG, c, <<0>>)} : c \in ExecCommands}

\* "V1" after a zero status byte, and the same with a byte that is not UTF-8.
FirmwareResponses ==
    {GoodFrame(RESP_TYPE_NOTIFICATION, GET_FIRMWARE, <<0, 86, 49>>),
     GoodFrame(RESP_TYPE_NOTIFICATION, GET_FIRMWARE, <<0, 86, 255>>),
     BadChecksumFrame(RESP_TYPE_NOTIFICATION, GET_FIRMWARE, <<0, 86, 49>>, 255),
     BadLenFrame(RESP_TYPE_NOTIFICATION, GET_FIRMWARE, 10, <<0, 86, 49>>)}

TagResponses ==
    {TagFrame(SINGLE_POLL, 200, <<48, 0>>, <<226, 0, 104>>, <<18, 52>>),
     TagFrame(SINGLE_POLL, 180, <<48, 0>>, <<>>, <<18, 52>>),
     BadChecksumFrame(RESP_TYPE_TAG, SINGLE_POLL,
                      TagParams(200, <<48, 0>>, <<226, 0, 104>>, <<18, 52>>), 1),
     BadLenFrame(RESP_TYPE_TAG, SINGLE_POLL, 6,
                 TagParams(200, <<48, 0>>, <<226, 0, 104>>, <<18, 52>>)),
     BadLenFrame(RESP_TYPE_TAG, SINGLE_POLL, 64,
                 TagParams(200, <<48, 0>>, <<226, 0, 104>>, <<18, 52>>)),
     BadLenFrame(RESP_TYPE_TAG, SINGLE_POLL, 11,
                 TagParams(200, <<48, 0>>, <<226, 0, 104>>, <<18, 52>>)),
     BadLenFrame(RESP_TYPE_TAG, SINGLE_POLL, 12,
                 TagParams(200, <<48, 0>>, <<226, 0, 104>>, <<18, 52>>)),
     BadLenFrame(RESP_TYPE_TAG, SINGLE_POLL, 262,
                 TagParams(200, <<48, 0>>, <<226, 0, 104>>, <<18, 52>>)),
     RawFrame(170, RESP_TYPE_TAG, SINGLE_POLL, 8,
              TagParams(200, <<48, 0>>, <<226, 0, 104>>, <<18, 52>>),
              FrameChecksum(RESP_TYPE_TAG, SINGLE_POLL, 8,
                  TagParams(200, <<48, 0>>, <<226, 0, 104>>, <<18, 52>>)))}

TruncatedResponses == {<<>>, <<HEADER, RESP_TYPE_NOTIFICATION, GET_FIRMWARE>>,
                       <<HEADER, RESP_TYPE_TAG, SINGLE_POLL, 0>>}

Responses ==
    StatusResponses \cup FirmwareResponses \cup TagResponses
    \cup TruncatedResponses

\* Transport behaviours during one exec.
Transports ==
    {TransportOk(r) : r \in Responses}
    \cup {[clear |-> FALSE, write |-> TRUE, read |-> <<>>],
          [clear |-> TRUE, write |-> FALSE, read |-> <<>>],
          [clear |-> TRUE, write |-> TRUE, read |-> ReadError]}

\* TX powers tried: both sides of each limit of the valid range.
Powers == {0, 17, 18, 20, 26, 27, 655}

\* Parameter blocks a device may return to the reading operations: a power
\* or query word, a one-byte code (region, channel, link profile), a QT word,
\* two memory bytes, three select blocks (a 16-bit mask, a mask length whose
\* rounding to bytes overflows u8, a mask longer than the bytes sent) and one
\* buffer entry.
DataPayloads ==
    {<<7, 208>>, <<3>>, <<209>>, <<0, 3>>, <<18, 52>>,
     <<33, 0, 0, 0, 32, 16, 128, 226, 0>>,
     <<33, 0, 0, 0, 32, 255, 0, 226, 0>>,
     <<33, 0, 0, 0, 32, 64, 0, 226, 0>>,
     TagParams(200, <<48, 0>>, <<226, 0, 104>>, <<18, 52>>)}

\* What may come back to a command c: the status replies, the data blocks
\* under either response type, a wrong LEN, and a long frame that does not
\* start with HEADER.
RepliesTo(c) ==
    {GoodFrame(RESP_TYPE_NOTIFICATION, c, <<0>>),
     GoodFrame(RESP_TYPE_NOTIFICATION, c, <<16>>),
     BadChecksumFrame(RESP_TYPE_NOTIFICATION, c, <<0>>, 1),
     BadLenFrame(RESP_TYPE_NOTIFICATION, c, 5, <<0>>),
     RawFrame(170, RESP_TYPE_NOTIFICATION, c, 1, <<0>>,
              FrameChecksum(RESP_TYPE_NOTIFICATION, c, 1, <<0>>)),
     RawFrame(170, RESP_TYPE_NOTIFICATION, c, 9,
              <<33, 0, 0, 0, 32, 16, 128, 226, 0>>,
              FrameChecksum(RESP_TYPE_NOTIFICATION, c, 9,
                            <<33, 0, 0, 0, 32, 16, 128, 226, 0>>)),
     GoodFrame(RESP_TYPE_NOTIFICATION, c, <<>>),
     GoodFrame(RESP_TYPE_TAG, c, <<0>>),
     GoodFrame(RESP_TYPE_TAG, c, <<18, 52>>),
     BadLenFrame(RESP_TYPE_TAG, c, 9, <<18, 52>>)}
    \cup {GoodFrame(RESP_TYPE_NOTIFICATION, c, p) : p \in DataPayloads}

\* A command other than c, whose replies may still be in the line (for
\* set_select_mode one that is not SET_SELECT_PARAM either, the code its
\* reply is said to echo, reader.rs 502).
Foreign(c) ==
    IF c \in {SET_SELECT_PARAM, SET_SELECT_MODE} THEN SET_TX_POWER
    ELSE SET_SELECT_PARAM

\* Transport behaviours during one exec of command c.
TransportsFor(c) ==
    {TransportOk(r) :
        r \in RepliesTo(c) \cup RepliesTo(Foreign(c)) \cup TruncatedResponses}
    \cup {[clear |-> FALSE, write |-> TRUE, read |-> <<>>],
          [clear |-> TRUE, write |-> FALSE, read |-> <<>>],
          [clear |-> TRUE, write |-> TRUE, read |-> ReadError]}

\* Arguments tried, on both sides of each limit the operations check.
Filled(n, b) == [i \in 1..n |-> b]
Passwords == {<<0, 0, 0, 0>>, <<18, 52, 86, 120>>}
KillPasswords == Passwords \cup {<<0, 0, 0, 1>>}
Channels == {0, 5, 255}
RateIndexes == {0, 1, 2, 3, 255}
ProfileCodes == {208, 212}
Sensitivities == {0, 16, 255}
SelectModes == {0, 1, 2}
SelectParamsTried ==
    {SelectParams(tg, ac, mb, pt, mk, tr) :
        tg \in {0, 4}, ac \in {0, 7}, mb \in {1, 3},
        pt \in {0, 32, 16909060},
        mk \in {<<>>, <<226>>, Filled(32, 255), Filled(33, 255)},
        tr \in BOOLEAN}
QueryParamsTried ==
    {QueryParams(sl, ss, tg, q) :
        sl \in {0, 2, 3}, ss \in 0..3, tg \in {0, 1},
        q \in {0, 4, 15, 16, 255}}
WordPtrs == {0, 2}
WordCounts == {0, 1, 255}
WriteData == {<<>>, <<1>>, <<1, 2>>, <<1, 2, 3>>,
              Filled(64, 170), Filled(65, 170), Filled(66, 170)}
LockPayloads == {LockPayload(tg, ac) : tg \in 1..5, ac \in 0..3}
BufferRounds == {0, 1, 3, 65535}
BlockMasks == {0, 4660, 65535}
ConfigWords == {0, 4660}
QtControls == {QtControl(sr, ps) : sr, ps \in BOOLEAN}

\* ------------------------------------------------------------------------
\* Specification of the single-shot operations: the caller invokes one,
\* takes its result, and may invoke the next
\* ------------------------------------------------------------------------
\* The call named name with argument a ran to its end with outcome o.
Returned(name, a, o) ==
    /\ op' = name
    /\ arg' = a
    /\ io' = o.io
    /\ response' = o.response
    /\ result' = o.result

GetFirmwareVersion ==
    /\ op = "none"
    /\ \E t \in Transports :
          Returned("get_firmware_version", 0, get_firmware_version(t))
    /\ UNCHANGED <<codecVars, pollVars>>

SinglePoll ==
    /\ op = "none"
    /\ \E t \in Transports : Returned("single_poll", 0, single_poll(t))
    /\ UNCHANGED <<codecVars, pollVars>>

SetTxPower ==
    /\ op = "none"
    /\ \E power_dbm \in Powers, t \in Transports :
          Returned("set_tx_power", power_dbm, set_tx_power(power_dbm, t))
    /\ UNCHANGED <<codecVars, pollVars>>

SetRegion ==
    /\ op = "none"
    /\ \E region \in Regions, t \in Transports :
          Returned("set_region", region, set_region(region, t))
    /\ UNCHANGED <<codecVars, pollVars>>

GetTxPower ==
    /\ op = "none"
    /\ \E t \in TransportsFor(GET_TX_POWER) :
          Returned("get_tx_power", 0,
                   get_tx_power(t))
    /\ UNCHANGED <<codecVars, pollVars>>

GetRegion ==
    /\ op = "none"
    /\ \E t \in TransportsFor(GET_REGION) :
          Returned("get_region", 0,
                   get_region(t))
    /\ UNCHANGED <<codecVars, pollVars>>

GetChannel ==
    /\ op = "none"
    /\ \E t \in TransportsFor(GET_CHANNEL) :
          Returned("get_channel", 0,
                   get_channel(t))
    /\ UNCHANGED <<codecVars, pollVars>>

SetChannel ==
    /\ op = "none"
    /\ \E channel \in Channels, t \in TransportsFor(SET_CHANNEL) :
          Returned("set_channel", channel,
                   set_channel(channel, t))
    /\ UNCHANGED <<codecVars, pollVars>>

SetAutoFreqHop ==
    /\ op = "none"
    /\ \E enabled \in BOOLEAN, t \in TransportsFor(SET_AUTO_FREQ_HOP) :
          Returned("set_auto_freq_hop", enabled,
                   set_auto_freq_hop(enabled, t))
    /\ UNCHANGED <<codecVars, pollVars>>

InsertChannel ==
    /\ op = "none"
    /\ \E channel \in Channels, t \in TransportsFor(INSERT_CHANNEL) :
          Returned("insert_channel", channel,
                   insert_channel(channel, t))
    /\ UNCHANGED <<codecVars, pollVars>>

SetContinuousCarrier ==
    /\ op = "none"
    /\ \E enabled \in BOOLEAN, t \in TransportsFor(SET_CONTINUOUS_CARRIER) :
          Returned("set_continuous_carrier", enabled,
                   set_continuous_carrier(enabled, t))
    /\ UNCHANGED <<codecVars, pollVars>>

SetBaudRate ==
    /\ op = "none"
    /\ \E rate_index \in RateIndexes, t \in TransportsFor(SET_BAUD_RATE) :
          Returned("set_baud_rate", rate_index,
                   set_baud_rate(rate_index, t))
    /\ UNCHANGED <<codecVars, pollVars>>

GetRfLinkProfile ==
    /\ op = "none"
    /\ \E t \in TransportsFor(GET_RF_LINK_PROFILE) :
          Returned("get_rf_link_profile", 0,
                   get_rf_link_profile(t))
    /\ UNCHANGED <<codecVars, pollVars>>

SetRfLinkProfile ==
    /\ op = "none"
    /\ \E profile \in ProfileCodes, t \in TransportsFor(SET_RF_LINK_PROFILE) :
          Returned("set_rf_link_profile", profile,
                   set_rf_link_profile(profile, t))
    /\ UNCHANGED <<codecVars, pollVars>>

GetReaderSensitivity ==
    /\ op = "none"
    /\ \E t \in TransportsFor(GET_READER_SENSITIVITY) :
          Returned("get_reader_sensitivity", 0,
                   get_reader_sensitivity(t))
    /\ UNCHANGED <<codecVars, pollVars>>

SetReaderSensitivity ==
    /\ op = "none"
    /\ \E sensitivity \in Sensitivities, t \in TransportsFor(SET_READER_SENSITIVITY) :
          Returned("set_reader_sensitivity", sensitivity,
                   set_reader_sensitivity(sensitivity, t))
    /\ UNCHANGED <<codecVars, pollVars>>

SetSelectParam ==
    /\ op = "none"
    /\ \E params \in SelectParamsTried, t \in TransportsFor(SET_SELECT_PARAM) :
          Returned("set_select_param", params,
                   set_select_param(params, t))
    /\ UNCHANGED <<codecVars, pollVars>>

GetSelectParam ==
    /\ op = "none"
    /\ \E overflow_checks \in BOOLEAN, t \in TransportsFor(GET_SELECT_PARAM) :
          Returned("get_select_param", [overflow_checks |-> overflow_checks],
                   get_select_param(t, overflow_checks))
    /\ UNCHANGED <<codecVars, pollVars>>

SetSelectMode ==
    /\ op = "none"
    /\ \E mode \in SelectModes, t \in TransportsFor(SET_SELECT_MODE) :
          Returned("set_select_mode", mode,
                   set_select_mode(mode, t))
    /\ UNCHANGED <<codecVars, pollVars>>

GetQueryParam ==
    /\ op = "none"
    /\ \E t \in TransportsFor(GET_QUERY_PARAM) :
          Returned("get_query_param", 0,
                   get_query_param(t))
    /\ UNCHANGED <<codecVars, pollVars>>

SetQueryParam ==
    /\ op = "none"
    /\ \E params \in QueryParamsTried, t \in TransportsFor(SET_QUERY_PARAM) :
          Returned("set_query_param", params,
                   set_query_param(params, t))
    /\ UNCHANGED <<codecVars, pollVars>>

ReadTagData ==
    /\ op = "none"
    /\ \E access_password \in Passwords, mem_bank \in {1, 2},
          word_ptr \in WordPtrs, word_count \in WordCounts, t \in TransportsFor(READ_TAG_DATA) :
          Returned("read_tag_data", [access_password |-> access_password, mem_bank |-> mem_bank,
                    word_ptr |-> word_ptr, word_count |-> word_count],
                   read_tag_data(access_password, mem_bank, word_ptr,
                                 word_count, t))
    /\ UNCHANGED <<codecVars, pollVars>>

WriteTagData ==
    /\ op = "none"
    /\ \E access_password \in Passwords, mem_bank \in {1, 3},
          word_ptr \in WordPtrs, data \in WriteData, t \in TransportsFor(WRITE_TAG_DATA) :
          Returned("write_tag_data", [access_password |-> access_password, mem_bank |-> mem_bank,
                    word_ptr |-> word_ptr, data |-> data],
                   write_tag_data(access_password, mem_bank, word_ptr,
                                  data, t))
    /\ UNCHANGED <<codecVars, pollVars>>

LockTag ==
    /\ op = "none"
    /\ \E access_password \in Passwords, lock_payload \in LockPayloads, t \in TransportsFor(LOCK_TAG) :
          Returned("lock_tag", [access_password |-> access_password,
                    lock_payload |-> lock_payload],
                   lock_tag(access_password, lock_payload, t))
    /\ UNCHANGED <<codecVars, pollVars>>

KillTag ==
    /\ op = "none"
    /\ \E kill_password \in KillPasswords, t \in TransportsFor(KILL_TAG) :
          Returned("kill_tag", kill_password,
                   kill_tag(kill_password, t))
    /\ UNCHANGED <<codecVars, pollVars>>

BlockPermalock ==
    /\ op = "none"
    /\ \E access_password \in Passwords, mem_bank \in {3},
          block_ptr \in WordPtrs, block_range \in {1}, mask \in BlockMasks, t \in TransportsFor(BLOCK_PERMALOCK) :
          Returned("block_permalock", [access_password |-> access_password, mem_bank |-> mem_bank,
                    block_ptr |-> block_ptr, block_range |-> block_range,
                    mask |-> mask],
                   block_permalock(access_password, mem_bank, block_ptr,
                                   block_range, mask, t))
    /\ UNCHANGED <<codecVars, pollVars>>

InventoryBuffer ==
    /\ op = "none"
    /\ \E rounds \in BufferRounds, t \in TransportsFor(INVENTORY_BUFFER) :
          Returned("inventory_buffer", rounds,
                   inventory_buffer(rounds, t))
    /\ UNCHANGED <<codecVars, pollVars>>

GetBufferData ==
    /\ op = "none"
    /\ \E t \in TransportsFor(GET_BUFFER_DATA) :
          Returned("get_buffer_data", 0,
                   get_buffer_data(t))
    /\ UNCHANGED <<codecVars, pollVars>>

ClearBuffer ==
    /\ op = "none"
    /\ \E t \in TransportsFor(CLEAR_BUFFER) :
          Returned("clear_buffer", 0,
                   clear_buffer(t))
    /\ UNCHANGED <<codecVars, pollVars>>

NxpReadProtect ==
    /\ op = "none"
    /\ \E access_password \in Passwords, t \in TransportsFor(NXP_READ_PROTECT) :
          Returned("nxp_read_protect", access_password,
                   nxp_read_protect(access_password, t))
    /\ UNCHANGED <<codecVars, pollVars>>

NxpResetReadProtect ==
    /\ op = "none"
    /\ \E access_password \in Passwords, t \in TransportsFor(NXP_RESET_READ_PROTECT) :
          Returned("nxp_reset_read_protect", access_password,
                   nxp_reset_read_protect(access_password, t))
    /\ UNCHANGED <<codecVars, pollVars>>

NxpChangeEas ==
    /\ op = "none"
    /\ \E access_password \in Passwords, enabled \in BOOLEAN, t \in TransportsFor(NXP_CHANGE_EAS) :
          Returned("nxp_change_eas", [access_password |-> access_password, enabled |-> enabled],
                   nxp_change_eas(access_password, enabled, t))
    /\ UNCHANGED <<codecVars, pollVars>>

NxpEasAlarm ==
    /\ op = "none"
    /\ \E t \in TransportsFor(NXP_EAS_ALARM) :
          Returned("nxp_eas_alarm", 0,
                   nxp_eas_alarm(t))
    /\ UNCHANGED <<codecVars, pollVars>>

NxpChangeConfig ==
    /\ op = "none"
    /\ \E access_password \in Passwords, config_word \in ConfigWords, t \in TransportsFor(NXP_CHANGE_CONFIG) :
          Returned("nxp_change_config", [access_password |-> access_password,
                    config_word |-> config_word],
                   nxp_change_config(access_password, config_word, t))
    /\ UNCHANGED <<codecVars, pollVars>>

ImpinjMonzaQt ==
    /\ op = "none"
    /\ \E access_password \in Passwords, qt_control \in QtControls,
          read \in BOOLEAN, t \in TransportsFor(IMPINJ_MONZA_QT) :
          Returned("impinj_monza_qt", [access_password |-> access_password,
                    qt_control |-> qt_control, read |-> read],
                   impinj_monza_qt(access_password, qt_control, read, t))
    /\ UNCHANGED <<codecVars, pollVars>>

\* The call has returned, the accumulation buffer outliving it as a field of
\* the driver would.
Return_keeps_buffer ==
    /\ op # "none"
    /\ pc \in {"idle", "returned"}
    /\ op' = "none" /\ arg' = 0 /\ io' = <<>> /\ response' = <<>>
    /\ result' = NoResult
    /\ pc' = "idle" /\ pieces' = <<>> /\ pos' = 0 /\ buffer' = buffer
    /\ tag_count' = 0 /\ tags' = <<>> /\ delivered' = <<>>
    /\ expired' = FALSE /\ drain_buf' = <<>> /\ fault_mark' = -1
    /\ silent' = FALSE
    /\ UNCHANGED codecVars

\* The call has returned; the driver holds nothing of it (reader.rs 10..12).
Return ==
    /\ op # "none"
    /\ pc \in {"idle", "returned"}
    /\ op' = "none" /\ arg' = 0 /\ io' = <<>> /\ response' = <<>>
    /\ result' = NoResult
    /\ pc' = "idle" /\ pieces' = <<>> /\ pos' = 0 /\ buffer' = <<>>
    /\ tag_count' = 0 /\ tags' = <<>> /\ delivered' = <<>>
    /\ expired' = FALSE /\ drain_buf' = <<>> /\ fault_mark' = -1
    /\ silent' = FALSE
    /\ UNCHANGED codecVars

InitExec == CodecAtRest /\ ExecAtRest /\ PollAtRest

NextExec ==
    \/ GetFirmwareVersion
    \/ SinglePoll
    \/ SetTxPower
    \/ SetRegion
    \/ GetTxPower
    \/ GetRegion
    \/ GetChannel
    \/ SetChannel
    \/ SetAutoFreqHop
    \/ InsertChannel
    \/ SetContinuousCarrier
    \/ SetBaudRate
    \/ GetRfLinkProfile
    \/ SetRfLinkProfile
    \/ GetReaderSensitivity
    \/ SetReaderSensitivity
    \/ SetSelectParam
    \/ GetSelectParam
    \/ SetSelectMode
    \/ GetQueryParam
    \/ SetQueryParam
    \/ ReadTagData
    \/ WriteTagData
    \/ LockTag
    \/ KillTag
    \/ BlockPermalock
    \/ InventoryBuffer
    \/ GetBufferData
    \/ ClearBuffer
    \/ NxpReadProtect
    \/ NxpResetReadProtect
    \/ NxpChangeEas
    \/ NxpEasAlarm
    \/ NxpChangeConfig
    \/ ImpinjMonzaQt
    \/ Return

SpecExec == InitExec /\ [][NextExec]_vars

\* ------------------------------------------------------------------------
\* Streaming polls: multiple_poll_with_callback (reader.rs 86..166),
\* multiple_poll (175..179), poll_for_duration (191..195),
\* poll_for_duration_with_callback (208..297)
\* ------------------------------------------------------------------------
RoundsOps == {"multiple_poll", "multiple_poll_with_callback"}
DurationOps == {"poll_for_duration", "poll_for_duration_with_callback"}
\* The operations whose callback pushes onto a Vec that they return.
CollectorOps == {"multiple_poll", "poll_for_duration"}
PollOps == RoundsOps \cup DurationOps

\* The multi-poll command with the round count low byte first.
PollCommand_little_endian(rounds) ==
    create_command(MULTIPLE_POLL, <<34, AsU8(rounds % 256), AsU8(rounds \div 256)>>)

\* The multi-poll command for a round count (reader.rs 94..104, 221..224).
PollCommand(rounds) ==
    create_command(MULTIPLE_POLL, <<34, AsU8(rounds \div 256), AsU8(rounds % 256)>>)

CONTINUOUS_ROUNDS == 65535

\* The multi-poll command written where the stop command belongs.
StopCommand_repoll == create_command(MULTIPLE_POLL, <<34, 255, 255>>)

\* The stop-polling command (reader.rs 289)
StopCommand == create_command(STOP_MULTIPLE_POLL, <<>>)

\* iter().position(|&b| b == byte): 0-based index of the first match, -1 for None.
Position(s, byte) ==
    IF \E i \in 1..Len(s) : s[i] = byte
    THEN (CHOOSE i \in 1..Len(s) : s[i] = byte /\ \A j \in 1..(i - 1) : s[j] # byte) - 1
    ELSE -1

\* iter().rposition(|&b| b == byte): 0-based index of the last match, -1 for None.
RPosition(s, byte) ==
    IF \E i \in 1..Len(s) : s[i] = byte
    THEN (CHOOSE i \in 1..Len(s) : s[i] = byte /\ \A j \in (i + 1)..Len(s) : s[j] # byte) - 1
    ELSE -1

\* buffer.extend_from_slice(&temp_buf[..bytes_read]) with the chunk forgotten
\* bytes of earlier reads.
Extend_forgetful(buf, chunk) == chunk

\* buffer.extend_from_slice(&temp_buf[..bytes_read]) (reader.rs 118, 237)
Extend(buf, chunk) == buf \o chunk

\* buffer.drain(..frame_end): the END byte stays.
DrainThrough_exclusive(buf, frame_end) == SubSeq(buf, frame_end + 1, Len(buf))

\* buffer.clear() in place of the drain.
DrainThrough_all(buf, frame_end) == <<>>

\* buffer.drain(..=frame_end) (reader.rs 129, 144, 146, 251, 273, 275)
DrainThrough(buf, frame_end) == SubSeq(buf, frame_end + 2, Len(buf))

\* The end-of-round test with the status byte left out.
IsEndOfRound_anystatus(frame) ==
    /\ Len(frame) >= 8
    /\ At(frame, 1) = RESP_TYPE_NOTIFICATION
    /\ At(frame, 2) = END_ROUND_CMD

\* The end-of-round notification test (reader.rs 124..127, 246..249)
IsEndOfRound(frame) ==
    /\ Len(frame) >= 8
    /\ At(frame, 1) = RESP_TYPE_NOTIFICATION
    /\ At(frame, 2) = END_ROUND_CMD
    /\ At(frame, 5) = END_ROUND_STATUS

\* The callback run for every frame parse_tag returns Ok for.
Dispatch_eager(parsed, log) ==
    IF IsOk(parsed)
    THEN Append(log, IF parsed.shape = "some" THEN parsed.value ELSE TagInfo(<<>>, 0))
    ELSE log

\* The match on parse_tag's result (reader.rs 133..142, 262..271): the
\* callback runs for Ok(Some(tag)) and for nothing else.
Dispatch(parsed, log) ==
    IF IsOk(parsed) /\ parsed.shape = "some" THEN Append(log, parsed.value)
    ELSE log

\* A read that yields nothing or fails ends the round-bounded poll at once.
IdleReadBreaks_eof(deadline_passed) == TRUE

\* After a read of zero bytes or a failed read the round-bounded poll breaks
\* out of its loop only when start.elapsed() > max_wait (reader.rs 150..161).
IdleReadBreaks(deadline_passed) == deadline_passed

\* What the call returns: the Vec for the collectors, else the count.
PollResult(name, count, vec) ==
    IF name \in CollectorOps THEN Ok("tags", vec) ELSE Ok("count", count)

\* The bytes of the stream: the pieces one after the other.
RECURSIVE Flatten(_)
Flatten(ps) == IF ps = <<>> THEN <<>> ELSE ps[1].bytes \o Flatten(Tail(ps))

stream == Flatten(pieces)

\* The frame the extraction loop is looking at: the first END in the buffer
\* and the nearest HEADER before it (reader.rs 120..122, 239..243).
frame_end == Position(buffer, END)
frame_start == RPosition(Slice(buffer, 0, frame_end), HEADER)
frame == Slice(buffer, frame_start, frame_end + 1)

\* Len(delivered) at the first absorbed fault.
Mark(faulty) == IF faulty /\ fault_mark = -1 THEN Len(delivered) ELSE fault_mark

\* ------------------------------------------------------------------------
\* What the device sends during a streaming poll
\* ------------------------------------------------------------------------
\* A piece of the stream: its bytes and, for a well-formed tag frame, the
\* tag it reports.
Piece(kind, bytes) == [kind |-> kind, bytes |-> bytes, tag |-> TagInfo(<<>>, 0)]
TagPiece(rssi, pcw, epc, crc) ==
    [kind |-> "tag",
     bytes |-> TagFrame(SINGLE_POLL, rssi, pcw, epc, crc),
     tag |-> TagInfo(bytes_to_hex(epc), rssi)]

EndOfRoundFrame == GoodFrame(RESP_TYPE_NOTIFICATION, END_ROUND_CMD, <<END_ROUND_STATUS>>)

PlainTagA == TagPiece(200, <<48, 0>>, <<226, 17>>, <<18, 52>>)
PlainTagB == TagPiece(180, <<48, 0>>, <<52>>, <<86, 120>>)
\* Well-formed tag frames with a delimiter value among their fields.
EndInEpcTag == TagPiece(200, <<48, 0>>, <<END, 1>>, <<18, 52>>)
HeaderRssiTag == TagPiece(HEADER, <<48, 0>>, <<226>>, <<18, 52>>)
EndOfRoundPiece == Piece("end_of_round", EndOfRoundFrame)
\* A tag-type frame that declares more bytes than it has.
OverlongLenPiece ==
    Piece("malformed", BadLenFrame(RESP_TYPE_TAG, SINGLE_POLL, 64,
                                   TagParams(200, <<48, 0>>, <<226, 17>>, <<18, 52>>)))
\* A notification that is not the end of a round.
OtherNotificationPiece ==
    Piece("notification", GoodFrame(RESP_TYPE_NOTIFICATION, END_ROUND_CMD, <<0>>))
NoisePiece == Piece("garbage", <<65>>)
StrayEndPiece == Piece("garbage", <<3, END>>)
\* The head of a frame that was cut off.
CutFramePiece == Piece("garbage", <<HEADER, RESP_TYPE_TAG>>)

Palette ==
    {PlainTagA, PlainTagB, EndInEpcTag, HeaderRssiTag, EndOfRoundPiece,
     OverlongLenPiece, OtherNotificationPiece, NoisePiece, StrayEndPiece,
     CutFramePiece}

Streams == UNION {[1..n -> Palette] : n \in 0..MaxPieces}
ShortStreams == UNION {[1..n -> Palette] : n \in 0..MaxFairPieces}

\* Round counts tried: the rejected 0, the least, and one with two distinct bytes.
RoundCounts == {0, 1, 258}

\* What a drain read can put into drain_buf.
DrainChunks == {<<0>>, EndOfRoundFrame}

\* The largest read: temp_buf is [0u8; 256] (reader.rs 114, 233).
TEMP_BUF_LEN == 256

\* ------------------------------------------------------------------------
\* Steps of a streaming poll
\* ------------------------------------------------------------------------
\* The call up to its first read: validation, clear_input, write of the
\* multi-poll command (reader.rs 90..111).  c and w tell whether clear_input
\* and write succeed.
RoundsBegun(streams) ==
    /\ \E name \in RoundsOps, rounds \in RoundCounts, ps \in streams,
          c \in BOOLEAN, w \in BOOLEAN :
          /\ op' = name
          /\ arg' = rounds
          /\ IF rounds = 0 THEN
                 /\ io' = <<>>
                 /\ result' = Err("InvalidParameter")
                 /\ pc' = "returned"
                 /\ pieces' = <<>>
             ELSE IF ~c THEN
                 /\ io' = <<<<"clear_input">>>>
                 /\ result' = Err("Transport")
                 /\ pc' = "returned"
                 /\ pieces' = <<>>
             ELSE IF ~w THEN
                 /\ io' = <<<<"clear_input">>, <<"write", PollCommand(rounds)>>>>
                 /\ result' = Err("Transport")
                 /\ pc' = "returned"
                 /\ pieces' = <<>>
             ELSE
                 /\ io' = <<<<"clear_input">>, <<"write", PollCommand(rounds)>>>>
                 /\ result' = NoResult
                 /\ pc' = "reading"
                 /\ pieces' = ps
    /\ UNCHANGED <<response, pos, buffer, tag_count, tags, delivered, expired,
                   drain_buf, fault_mark>>
    /\ UNCHANGED <<codecVars, silent>>

BeginRounds ==
    /\ op = "none"
    /\ RoundsBegun(Streams)

\* The same for the duration-bounded poll (reader.rs 216..229), the device
\* sending one of the given streams.
DurationBegun(streams) ==
    /\ \E name \in DurationOps, ps \in streams, c \in BOOLEAN, w \in BOOLEAN :
          /\ op' = name
          /\ IF ~c THEN
                 /\ io' = <<<<"clear_input">>>>
                 /\ result' = Err("Transport")
                 /\ pc' = "returned"
                 /\ pieces' = <<>>
             ELSE IF ~w THEN
                 /\ io' = <<<<"clear_input">>,
                            <<"write", PollCommand(CONTINUOUS_ROUNDS)>>>>
                 /\ result' = Err("Transport")
                 /\ pc' = "returned"
                 /\ pieces' = <<>>
             ELSE
                 /\ io' = <<<<"clear_input">>,
                            <<"write", PollCommand(CONTINUOUS_ROUNDS)>>>>
                 /\ result' = NoResult
                 /\ pc' = "reading"
                 /\ pieces' = ps
    /\ UNCHANGED <<arg, response, pos, buffer, tag_count, tags, delivered,
                   expired, drain_buf, fault_mark>>
    /\ UNCHANGED <<codecVars, silent>>

BeginDuration ==
    /\ op = "none"
    /\ DurationBegun(Streams)

\* Time passes, more than max_wait of it: start.elapsed() reaches the timeout
\* (duration-bounded) or exceeds max_wait (round-bounded), and the last byte
\* that arrived is more than max_wait old.
Tick ==
    /\ pc \in {"reading", "extracting"}
    /\ ~expired \/ ~silent
    /\ expired' = TRUE
    /\ silent' = TRUE
    /\ UNCHANGED <<pc, pieces, pos, buffer, tag_count, tags, delivered,
                   drain_buf, fault_mark>>
    /\ UNCHANGED <<codecVars, execVars>>

\* The loop is entered: unconditionally in the round-bounded poll (reader.rs
\* 113), while start.elapsed() < timeout in the duration-bounded one (232).
LoopEntered == pc = "reading" /\ (op \in DurationOps => ~expired)

\* transport.read returns n > 0 bytes (reader.rs 116..118, 235..237).
ReadData ==
    /\ LoopEntered
    /\ \E n \in 1..Min(TEMP_BUF_LEN, Len(stream) - pos) :
          /\ buffer' = Extend(buffer, SubSeq(stream, pos + 1, pos + n))
          /\ pos' = pos + n
    /\ pc' = "extracting"
    /\ silent' = FALSE
    /\ UNCHANGED <<pieces, tag_count, tags, delivered, expired, drain_buf,
                   fault_mark>>
    /\ UNCHANGED <<codecVars, execVars>>

\* What follows a read that brought nothing (reader.rs 150..161, 279..284).
AfterIdleRead ==
    /\ IF op \in RoundsOps /\ IdleReadBreaks(expired)
       THEN /\ pc' = "returned"
            /\ result' = PollResult(op, tag_count, tags)
       ELSE UNCHANGED <<pc, result>>
    /\ fault_mark' = Mark(TRUE)
    /\ UNCHANGED <<pieces, pos, buffer, tag_count, tags, delivered, expired,
                   drain_buf>>
    /\ UNCHANGED <<op, arg, io, response>>
    /\ UNCHANGED <<codecVars, silent>>

\* transport.read returns Ok(0).
ReadNothing ==
    /\ LoopEntered
    /\ AfterIdleRead

\* transport.read returns Err.
ReadFails ==
    /\ LoopEntered
    /\ AfterIdleRead

\* The extraction loop finds no END in the buffer and ends (reader.rs 120, 239).
ExtractNone ==
    /\ pc = "extracting"
    /\ frame_end = -1
    /\ pc' = "reading"
    /\ UNCHANGED <<pieces, pos, buffer, tag_count, tags, delivered, expired,
                   drain_buf, fault_mark>>
    /\ UNCHANGED <<codecVars, execVars, silent>>

\* An END with no HEADER before it: the bytes are dropped (reader.rs 145..147,
\* 274..276).
ExtractGarbage ==
    /\ pc = "extracting"
    /\ frame_end # -1
    /\ frame_start = -1
    /\ buffer' = DrainThrough(buffer, frame_end)
    /\ UNCHANGED <<pc, pieces, pos, tag_count, tags, delivered, expired,
                   drain_buf, fault_mark>>
    /\ UNCHANGED <<codecVars, execVars, silent>>

\* The frame is the end-of-round notification.  The round-bounded poll
\* returns (reader.rs 124..131); the duration-bounded poll writes the
\* multi-poll command again if time remains, ignoring the outcome w of the
\* write, and goes on (246..260).
ExtractEndOfRound ==
    /\ pc = "extracting"
    /\ frame_end # -1
    /\ frame_start # -1
    /\ IsEndOfRound(frame)
    /\ buffer' = DrainThrough(buffer, frame_end)
    /\ IF op \in RoundsOps THEN
           /\ pc' = "returned"
           /\ result' = PollResult(op, tag_count, tags)
           /\ UNCHANGED <<io, fault_mark>>
       ELSE IF ~expired THEN
           /\ \E w \in BOOLEAN :
                 /\ io' = Append(io, <<"write", PollCommand(CONTINUOUS_ROUNDS)>>)
                 /\ fault_mark' = Mark(~w)
           /\ UNCHANGED <<pc, result>>
       ELSE UNCHANGED <<pc, result, io, fault_mark>>
    /\ UNCHANGED <<pieces, pos, tag_count, tags, delivered, expired, drain_buf>>
    /\ UNCHANGED <<op, arg, response>>
    /\ UNCHANGED <<codecVars, silent>>

\* Any other frame goes to parse_tag; a tag goes to the callback and is
\* counted; the frame leaves the buffer (reader.rs 133..144, 262..273).
ExtractFrame ==
    /\ pc = "extracting"
    /\ frame_end # -1
    /\ frame_start # -1
    /\ ~IsEndOfRound(frame)
    /\ LET parsed == parse_tag(frame) IN
          /\ delivered' = Dispatch(parsed, delivered)
          /\ tags' = IF op \in CollectorOps THEN Dispatch(parsed, tags) ELSE tags
          /\ tag_count' = IF IsOk(parsed) /\ parsed.shape = "some"
                          THEN tag_count + 1 ELSE tag_count
    /\ buffer' = DrainThrough(buffer, frame_end)
    /\ UNCHANGED <<pc, pieces, pos, expired, drain_buf, fault_mark>>
    /\ UNCHANGED <<codecVars, execVars, silent>>

\* The deadline has passed: the stop command is written, the outcome w of
\* the write ignored (reader.rs 232, 289).
StopPolling ==
    /\ pc = "reading"
    /\ op \in DurationOps
    /\ expired
    /\ \E w \in BOOLEAN :
          /\ io' = Append(io, <<"write", StopCommand>>)
          /\ fault_mark' = Mark(~w)
    /\ pc' = "draining"
    /\ UNCHANGED <<pieces, pos, buffer, tag_count, tags, delivered, expired,
                   drain_buf>>
    /\ UNCHANGED <<op, arg, response, result>>
    /\ UNCHANGED <<codecVars, silent>>

\* A drain read returns bytes, which are dropped (reader.rs 293..294).
DrainData ==
    /\ pc = "draining"
    /\ \E chunk \in DrainChunks : drain_buf' = chunk
    /\ UNCHANGED <<pc, pieces, pos, buffer, tag_count, tags, delivered,
                   expired, fault_mark>>
    /\ UNCHANGED <<codecVars, execVars, silent>>

\* A drain read returns Ok(0) or Err: the call returns (reader.rs 294..296).
DrainEnds ==
    /\ pc = "draining"
    /\ pc' = "returned"
    /\ result' = PollResult(op, tag_count, tags)
    /\ UNCHANGED <<pieces, pos, buffer, tag_count, tags, delivered, expired,
                   drain_buf, fault_mark>>
    /\ UNCHANGED <<op, arg, io, response>>
    /\ UNCHANGED <<codecVars, silent>>

InitPoll == CodecAtRest /\ ExecAtRest /\ PollAtRest

NextPoll ==
    \/ BeginRounds
    \/ BeginDuration
    \/ Tick
    \/ ReadData
    \/ ReadNothing
    \/ ReadFails
    \/ ExtractNone
    \/ ExtractGarbage
    \/ ExtractEndOfRound
    \/ ExtractFrame
    \/ StopPolling
    \/ DrainData
    \/ DrainEnds
    \/ Return

SpecPoll == InitPoll /\ [][NextPoll]_vars

\* ------------------------------------------------------------------------
\* Specification of the frame encoder: one call of create_command per step
\* ------------------------------------------------------------------------
\* Command bytes tried: codes of the driver plus the extremes of u8.
CommandBytes == {0, GET_FIRMWARE, SINGLE_POLL, MULTIPLE_POLL, SET_TX_POWER, 255}
\* Parameter byte values tried in the exhaustively enumerated short sequences.
ParamBytes == {0, 1, END, HEADER, 255}
\* Lengths of the long parameter sequences: around the 8-bit boundary of the
\* length field and at its 16-bit limit.
LongLens == {255, 256, 257, 4660, U16_MAX}

ShortParams == UNION {[1..n -> ParamBytes] : n \in 0..MaxParamLen}
\* A long parameter sequence of length n whose bytes vary with the index.
LongParams(n, seed) == [i \in 1..n |-> (i * 7 + seed) % 256]

NoFrame == <<>>

CodecInputs ==
    (CommandBytes \X ShortParams)
    \cup {<<c, LongParams(n, seed)>> :
             c \in {GET_FIRMWARE, 255}, n \in LongLens, seed \in {0, 3}}

InitCodec ==
    \E inp \in CodecInputs :
        /\ cc_command = inp[1]
        /\ cc_params = inp[2]
        /\ cc_frame = NoFrame
        /\ ExecAtRest
        /\ PollAtRest

CreateCommand ==
    /\ cc_frame = NoFrame
    /\ cc_frame' = create_command(cc_command, cc_params)
    /\ UNCHANGED <<cc_command, cc_params>>
    /\ UNCHANGED <<execVars, pollVars>>

NextCodec == CreateCommand

SpecCodec == InitCodec /\ [][NextCodec]_vars

\* C1: create_command(command, params) with n = Len(params) <= 65535 returns
\* exactly n + 7 bytes [0xBB, 0x00, command, n_hi, n_lo, params..., checksum,
\* 0x7E] with n_hi/n_lo the big-endian length and checksum the sum modulo 256
\* of the type, command, both length bytes and all parameter bytes.
C1_FrameLayout ==
    cc_frame # NoFrame =>
        LET n == Len(cc_params) IN
        /\ Len(cc_frame) = n + 7
        /\ cc_frame[1] = 187
        /\ cc_frame[2] = 0
        /\ cc_frame[3] = cc_command
        /\ cc_frame[4] * 256 + cc_frame[5] = n
        /\ cc_frame[4] \in Byte /\ cc_frame[5] \in Byte
        /\ \A i \in 1..n : cc_frame[5 + i] = cc_params[i]
        /\ cc_frame[n + 6] =
              (0 + cc_command + cc_frame[4] + cc_frame[5]
                 + SumOfBytes(cc_params, 1, n)) % 256
        /\ cc_frame[n + 7] = 126

\* A frame with a two-byte length field in use and a wrapped checksum exists.
C1_Witness ==
    /\ cc_frame # NoFrame
    /\ Len(cc_params) = U16_MAX
    /\ cc_frame[4] = 255 /\ cc_frame[5] = 255
    /\ cc_command = 255

\* ------------------------------------------------------------------------
\* Response validation
\* ------------------------------------------------------------------------
\* The operation returned Ok(()) or Ok with a value decoded from the response.
Accepted ==
    /\ op \in {"get_firmware_version", "single_poll", "set_tx_power", "set_region"}
    /\ IsOk(result)
    /\ result.shape \in {"unit", "some", "string"}

\* C2: a response frame that an operation accepts reproduces its own
\* checksum (the byte before END is the 8-bit wraparound sum of TYPE,
\* COMMAND, LEN_HI, LEN_LO and all PARAM bytes); a response whose checksum
\* byte is wrong is never accepted.
C2_AcceptedChecksumHolds == Accepted => ChecksumHolds(response)

\* C3: a response frame that an operation accepts has a PARAMS region whose
\* length matches the declared 16-bit LEN field (response length = LEN + 7);
\* a response whose LEN disagrees is never accepted.
C3_AcceptedLenHolds == Accepted => LenHolds(response)

\* ------------------------------------------------------------------------
\* Streaming poll: what the stream holds, stated from the wire format alone
\* ------------------------------------------------------------------------
\* The end-of-round notification signature: length >= 8, type 0x01, command
\* 0xFF, byte[5] = 0x15.
EndOfRoundSignature(f) ==
    /\ Len(f) >= 8
    /\ f[2] = 1
    /\ f[3] = 255
    /\ f[6] = 21

\* The multi-poll command with round count 0xFFFF, byte for byte.
ContinuousPollFrame == <<187, 0, 39, 0, 3, 34, 255, 255, 74, 126>>

\* The number of the first k pieces that lie wholly within the first n bytes.
RECURSIVE PiecesWithin(_, _)
PiecesWithin(ps, n) ==
    IF ps = <<>> \/ Len(ps[1].bytes) > n THEN 0
    ELSE 1 + PiecesWithin(Tail(ps), n - Len(ps[1].bytes))

\* The tags of the well-formed tag frames among ps, in order; with
\* untilEndOfRound, only those before the first end-of-round notification.
RECURSIVE TagsAmong(_, _)
TagsAmong(ps, untilEndOfRound) ==
    IF ps = <<>> THEN <<>>
    ELSE IF ps[1].kind = "end_of_round" /\ untilEndOfRound THEN <<>>
    ELSE (IF ps[1].kind = "tag" THEN <<ps[1].tag>> ELSE <<>>)
         \o TagsAmong(Tail(ps), untilEndOfRound)

\* The tags of the complete well-formed tag frames the driver has read.
TagsSent ==
    TagsAmong(SubSeq(pieces, 1, PiecesWithin(pieces, pos)), op \in RoundsOps)

\* The frames a scan of bytes cuts out when done in one go: up to each 0x7E
\* in turn, from the nearest 0xBB before it; with untilEndOfRound the scan
\* ends with the first end-of-round notification, which is its last frame.
RECURSIVE FramesIn(_, _)
FramesIn(bytes, untilEndOfRound) ==
    IF ~\E i \in 1..Len(bytes) : bytes[i] = 126 THEN <<>>
    ELSE
        LET e == CHOOSE i \in 1..Len(bytes) :
                     bytes[i] = 126 /\ \A j \in 1..(i - 1) : bytes[j] # 126
            rest == SubSeq(bytes, e + 1, Len(bytes))
        IN IF ~\E i \in 1..(e - 1) : bytes[i] = 187
           THEN FramesIn(rest, untilEndOfRound)
           ELSE
               LET h == CHOOSE i \in 1..(e - 1) :
                            bytes[i] = 187 /\ \A j \in (i + 1)..(e - 1) : bytes[j] # 187
                   f == SubSeq(bytes, h, e)
               IN IF EndOfRoundSignature(f) /\ untilEndOfRound THEN <<f>>
                  ELSE <<f>> \o FramesIn(rest, untilEndOfRound)

\* The tags parse_tag makes of a sequence of frames, in order.
RECURSIVE TagsOfFrames(_)
TagsOfFrames(fs) ==
    IF fs = <<>> THEN <<>>
    ELSE (IF ~EndOfRoundSignature(fs[1]) /\ parse_tag(fs[1]).shape = "some"
          THEN <<parse_tag(fs[1]).value>> ELSE <<>>)
         \o TagsOfFrames(Tail(fs))

RECURSIVE CountEndOfRound(_)
CountEndOfRound(fs) ==
    IF fs = <<>> THEN 0
    ELSE (IF EndOfRoundSignature(fs[1]) THEN 1 ELSE 0) + CountEndOfRound(Tail(fs))

\* The bytes the driver has read so far.
BytesRead == SubSeq(stream, 1, pos)

\* The extraction loop is not running: the call is between reads, is
\* draining, or has returned a value.
Settled ==
    /\ op \in PollOps
    /\ pc \in {"reading", "draining", "returned"}
    /\ pc = "returned" => IsOk(result)

\* The write entries of io that carry the given frame.
WritesOf(f) == {i \in 1..Len(io) : io[i] = <<"write", f>>}

\* The step removes a frame from the buffer.
FrameAtHand == pc = "extracting" /\ frame_end # -1 /\ frame_start # -1
FrameLeaves == FrameAtHand /\ buffer' # buffer

\* C4: during a streaming poll every complete well-formed tag frame in the
\* byte stream read before the session ends, whatever the values of its RSSI,
\* PC, EPC and checksum bytes (0xBB and 0x7E included) and whatever garbage
\* precedes it, is delivered to the callback exactly once.
C4_EveryTagFrameDelivered == Settled => delivered = TagsSent

\* C5: in both streaming polls the callback runs exactly once for each frame
\* that parse_tag turns into a tag and never otherwise, in the order of the
\* frames' terminators; the returned count is the number of callback runs,
\* and multiple_poll / poll_for_duration return exactly the delivered
\* sequence.
C5_CountsAgree ==
    /\ op \in PollOps => tag_count = Len(delivered)
    /\ op \in CollectorOps => tags = delivered
    /\ (op \in PollOps /\ pc = "returned" /\ IsOk(result)) =>
          IF op \in CollectorOps
          THEN result.shape = "tags" /\ result.value = delivered
          ELSE result.shape = "count" /\ result.value = Len(delivered)

C5_CallbackStep ==
    LET isTag == /\ FrameAtHand
                 /\ ~EndOfRoundSignature(frame)
                 /\ parse_tag(frame).shape = "some"
    IN /\ (FrameLeaves /\ isTag) =>
              delivered' = Append(delivered, parse_tag(frame).value)
       /\ (delivered' # delivered /\ op' # "none") => (FrameLeaves /\ isTag)

C5_CallbackOncePerTag == [](C5_CountsAgree) /\ [][C5_CallbackStep]_vars

\* Two tags went to the callback and the collector returned both.
C5_Witness ==
    /\ op = "poll_for_duration"
    /\ pc = "returned"
    /\ IsOk(result)
    /\ Len(result.value) = 2
    /\ result.value[1] # result.value[2]

\* C6: for a fixed byte stream the tags delivered do not depend on how the
\* stream is cut into reads: they are those of one scan of the bytes read.
C6_SplitIndependent ==
    Settled => delivered = TagsOfFrames(FramesIn(BytesRead, op \in RoundsOps))

\* A tag has been delivered and the head of the next frame waits in the
\* buffer for the read that brings its tail.
C6_Witness ==
    /\ op \in PollOps
    /\ pc = "reading"
    /\ Len(delivered) = 1
    /\ Len(buffer) > 1
    /\ buffer[1] = 187
    /\ pos < Len(stream)

\* C7: in the duration-bounded poll each end-of-round notification extracted
\* while time remains makes the multi-poll command be written once more, and
\* the tag frames after it are still delivered: the multi-poll command has
\* been written 1 + (end-of-round notifications extracted before the
\* deadline) times; one notification followed by one tag frame gives one tag
\* and one reissue.
C7_ReissueCount ==
    /\ (op \in DurationOps /\ pc = "reading" /\ ~expired) =>
          Cardinality(WritesOf(ContinuousPollFrame))
              = 1 + CountEndOfRound(FramesIn(BytesRead, FALSE))
    /\ (op \in DurationOps /\ Settled) =>
          Cardinality(WritesOf(ContinuousPollFrame))
              <= 1 + CountEndOfRound(FramesIn(BytesRead, FALSE))
    /\ (/\ op \in DurationOps /\ Settled
        /\ Len(pieces) = 2
        /\ pieces[1].bytes = <<187, 1, 255, 0, 1, 21, 22, 126>>
        /\ pieces[2] = PlainTagA
        /\ pos = Len(stream)) =>
          /\ delivered = <<PlainTagA.tag>>
          /\ (~expired => Cardinality(WritesOf(ContinuousPollFrame)) = 2)

C7_ReissueStep ==
    (op \in DurationOps /\ pc \in {"reading", "extracting"}
        /\ pc' \in {"reading", "extracting"}) =>
        IF FrameLeaves /\ EndOfRoundSignature(frame) /\ ~expired
        THEN io' = Append(io, <<"write", ContinuousPollFrame>>)
        ELSE io' = io

C7_ReissueOnEndOfRound == [](C7_ReissueCount) /\ [][C7_ReissueStep]_vars

\* The notification came first, the command was written again, the tag that
\* followed was delivered, all before the deadline.
C7_Witness ==
    /\ op = "poll_for_duration_with_callback"
    /\ pieces = <<EndOfRoundPiece, PlainTagA>>
    /\ pc = "reading"
    /\ ~expired
    /\ pos = Len(stream)
    /\ Len(delivered) = 1
    /\ Len(io) = 3

\* C8: a frame extracted during a streaming poll that does not parse as a
\* tag does not abort reassembly: it leaves the buffer, no callback runs for
\* it, the poll returns no error, and the well-formed tag frames after it
\* in the stream are still delivered.
C8_DiscardStep ==
    (/\ FrameLeaves
     /\ ~EndOfRoundSignature(frame)
     /\ parse_tag(frame).shape # "some") =>
        /\ buffer' = SubSeq(buffer, frame_end + 2, Len(buffer))
        /\ delivered' = delivered
        /\ tag_count' = tag_count
        /\ pc' = "extracting"
        /\ result' = NoResult

\* Streams made of frames that do not parse and of tag frames free of
\* delimiter values: every tag frame read is delivered.
C8_TagsAfterBadFrames ==
    (/\ Settled
     /\ \A i \in 1..Len(pieces) :
           \/ pieces[i].kind \in {"malformed", "notification"}
           \/ pieces[i] \in {PlainTagA, PlainTagB}
     /\ \E i \in 1..Len(pieces) : pieces[i].kind \in {"malformed", "notification"}) =>
        delivered = TagsSent

C9_AbsorbStep ==
    (pc \in {"reading", "extracting", "draining"}) =>
        /\ pc' # "returned" => result' = NoResult
        /\ pc' = "returned" =>
              /\ result' = IF op \in CollectorOps THEN Ok("tags", delivered)
                           ELSE Ok("count", Len(delivered))
        /\ (pc # "draining" /\ pc' \in {"draining", "returned"}) =>
              \/ expired
              \/ op \in RoundsOps /\ FrameLeaves /\ EndOfRoundSignature(frame)
        /\ (pc = "reading" /\ pos' = pos /\ pc' = "reading") =>
              buffer' = buffer /\ delivered' = delivered

C9_DeliveredDespiteFaults ==
    (Settled /\ fault_mark >= 0) =>
        delivered = TagsOfFrames(FramesIn(BytesRead, op \in RoundsOps))

C9_FaultsAbsorbed == [](C9_DeliveredDespiteFaults) /\ [][C9_AbsorbStep]_vars

\* A fault was absorbed, a tag was delivered after it, and the call
\* returned Ok.
C9_Witness ==
    /\ op \in PollOps
    /\ pc = "returned"
    /\ IsOk(result)
    /\ fault_mark >= 0
    /\ Len(delivered) > fault_mark

\* ------------------------------------------------------------------------
\* The streaming polls with time advancing and every transport call
\* returning
\* ------------------------------------------------------------------------
BeginDurationShort ==
    /\ op = "none"
    /\ DurationBegun(ShortStreams)

NextDuration ==
    \/ BeginDurationShort
    \/ Tick
    \/ ReadData
    \/ ReadNothing
    \/ ReadFails
    \/ ExtractNone
    \/ ExtractGarbage
    \/ ExtractEndOfRound
    \/ ExtractFrame
    \/ StopPolling
    \/ DrainData
    \/ DrainEnds
    \/ Return

FairPoll ==
    /\ InitPoll
    /\ [][NextDuration]_vars
    /\ WF_vars(Tick)
    /\ WF_vars(ReadData \/ ReadNothing \/ ReadFails)
    /\ WF_vars(ExtractNone \/ ExtractGarbage \/ ExtractEndOfRound \/ ExtractFrame)
    /\ WF_vars(StopPolling)
    /\ WF_vars(DrainData \/ DrainEnds)

\* C10: poll_for_duration_with_callback always returns once its deadline
\* has passed, whatever the transport does, also when reads keep returning
\* data after the stop command has been written.
C10_DurationPollReturns ==
    (op = "poll_for_duration_with_callback" /\ pc = "reading") ~> (pc = "returned")

\* ------------------------------------------------------------------------
\* Completion of the round-bounded poll by timeout
\* ------------------------------------------------------------------------
\* The round-bounded poll leaves its loop from a read that brought nothing
\* (it was between reads and now has returned).
EndsOnIdleRead == op \in RoundsOps /\ pc = "reading" /\ pc' = "returned"

\* C11: the round-bounded poll completes by timeout only when no data has
\* arrived for the whole max-wait interval: it does not end on an empty or
\* failed read while data was received less than max-wait ago.
C11_TimeoutOnlyAfterSilence == [][EndsOnIdleRead => silent]_vars

\* ------------------------------------------------------------------------
\* Transport trace of the duration-bounded poll
\* ------------------------------------------------------------------------
\* The stop-polling command (0x28, no parameters), byte for byte.
StopFrame == <<187, 0, 40, 0, 0, 40, 126>>

\* C12: every poll_for_duration_with_callback session makes its transport
\* calls in this order: clear_input, a write of the multi-poll command with
\* round count 0xFFFF, reads interleaved with zero or more writes of that
\* same command, exactly one write of the stop-polling command, then only
\* reads whose bytes are discarded until a read returns nothing; nothing is
\* written and no callback runs after the stop command.  io holds the
\* clear_input and write calls in order; the reads are the steps between.
C12_TraceShape ==
    op \in DurationOps =>
        /\ Len(io) >= 1
        /\ io[1] = <<"clear_input">>
        /\ Len(io) >= 2 => io[2] = <<"write", ContinuousPollFrame>>
        /\ pc # "returned" => Len(io) >= 2
        /\ \A i \in 3..Len(io) :
              \/ io[i] = <<"write", ContinuousPollFrame>>
              \/ i = Len(io) /\ io[i] = <<"write", StopFrame>>
        /\ pc \in {"reading", "extracting"} => WritesOf(StopFrame) = {}
        /\ (pc = "draining" \/ (pc = "returned" /\ IsOk(result))) =>
              /\ Len(io) >= 3
              /\ WritesOf(StopFrame) = {Len(io)}

C12_TraceStep ==
    /\ (op \in DurationOps /\ op' = op) =>
          \/ io' = io
          \/ /\ pc \in {"reading", "extracting"}
             /\ \E f \in {ContinuousPollFrame, StopFrame} :
                   io' = Append(io, <<"write", f>>)
    /\ (op \in DurationOps /\ pc = "draining") =>
          /\ io' = io
          /\ delivered' = delivered
          /\ tags' = tags
          /\ tag_count' = tag_count
          /\ buffer' = buffer
          /\ pos' = pos
          /\ pc' \in {"draining", "returned"}
    /\ (op \in DurationOps /\ pc # "returned" /\ pc' = "returned" /\ IsOk(result')) =>
          pc = "draining" /\ drain_buf' = drain_buf

C12_DurationPollTrace == [](C12_TraceShape) /\ [][C12_TraceStep]_vars

\* A session with one reissue and one tag whose drain discarded a whole
\* frame before it returned.
C12_Witness ==
    /\ op = "poll_for_duration_with_callback"
    /\ pc = "returned"
    /\ io = <<<<"clear_input">>, <<"write", ContinuousPollFrame>>,
              <<"write", ContinuousPollFrame>>, <<"write", StopFrame>>>>
    /\ Len(delivered) = 1
    /\ Len(drain_buf) > 1
    /\ result = Ok("count", 1)

\* ------------------------------------------------------------------------
\* Every operation that checks its arguments, in one specification: the
\* single-shot operations and the round-bounded poll
\* ------------------------------------------------------------------------
BeginRoundsShort ==
    /\ op = "none"
    /\ RoundsBegun(ShortStreams)

NextCalls ==
    \/ NextExec
    \/ BeginRoundsShort
    \/ Tick
    \/ ReadData
    \/ ReadNothing
    \/ ReadFails
    \/ ExtractNone
    \/ ExtractGarbage
    \/ ExtractEndOfRound
    \/ ExtractFrame

SpecCalls == InitExec /\ [][NextCalls]_vars

\* The operations that reject some argument values, and the values rejected.
ValidatedOps ==
    {"set_tx_power", "set_query_param", "set_select_param", "write_tag_data",
     "read_tag_data", "kill_tag", "multiple_poll", "multiple_poll_with_callback",
     "inventory_buffer", "set_baud_rate"}

OutOfRange ==
    \/ op = "set_tx_power" /\ (arg < 18 \/ arg > 26)
    \/ op = "set_query_param" /\ arg.q > 15
    \/ op = "set_select_param" /\ Len(arg.mask) > 32
    \/ op = "write_tag_data"
          /\ (Len(arg.data) = 0 \/ Len(arg.data) % 2 = 1 \/ Len(arg.data) > 64)
    \/ op = "read_tag_data" /\ arg.word_count = 0
    \/ op = "kill_tag" /\ arg = <<0, 0, 0, 0>>
    \/ op \in RoundsOps \cup {"inventory_buffer"} /\ arg = 0
    \/ op = "set_baud_rate" /\ arg > 2

\* C13: parameter validation precedes all I/O: set_tx_power outside
\* [18,26], set_query_param with q > 15, set_select_param with a mask longer
\* than 32 bytes, write_tag_data with empty, odd-length or > 64-byte data,
\* read_tag_data with word_count 0, kill_tag with the all-zero password,
\* multiple_poll and inventory_buffer with rounds 0 and set_baud_rate with
\* index > 2 return InvalidParameter with no transport call made; every
\* value inside those ranges passes validation and reaches the transport
\* (its first call, clear_input, is made).
C13_ValidationPrecedesIo ==
    op \in ValidatedOps =>
        IF OutOfRange
        THEN result = Err("InvalidParameter") /\ io = <<>>
        ELSE /\ result.kind # "InvalidParameter"
             /\ Len(io) >= 1
             /\ io[1] = <<"clear_input">>

\* write_tag_data refused 66 bytes (even, one word too many) before any I/O.
C13_Witness ==
    /\ op = "write_tag_data"
    /\ Len(arg.data) = 66
    /\ io = <<>>
    /\ result = Err("InvalidParameter")

\* ------------------------------------------------------------------------
\* Outcomes of the single-shot operations over the device's responses
\* ------------------------------------------------------------------------
\* The call made all three transport calls and the read gave a response.
HasResponse == Len(io) = 3 /\ io[3] = <<"read">> /\ result.kind # "Transport"

\* C14: get_firmware_version is total over transport responses: for every
\* response it returns either InvalidResponse or Ok with the lossy UTF-8
\* decoding of bytes 6 .. len-2 (after the status byte, before checksum and
\* END), and it never panics, in particular for responses of 7 bytes.
C14_FirmwareVersionTotal ==
    (op = "get_firmware_version" /\ HasResponse) =>
        \/ result = Err("InvalidResponse")
        \/ /\ RangeInBounds(response, 6, Len(response) - 2)
           /\ result = Ok("string",
                          from_utf8_lossy(Slice(response, 6, Len(response) - 2)))

\* A single-shot operation has been called (any operation but the streaming
\* polls).
SingleShot == op # "none" /\ op \notin RoundsOps \cup DurationOps

\* C15: for every single-shot operation, a response whose first byte is not
\* HEADER (0xBB) is rejected with InvalidResponse, whatever its length and
\* remaining bytes.
C15_BadHeaderRejected ==
    (SingleShot /\ HasResponse /\ Len(response) >= 1 /\ response[1] # HEADER) =>
        result.kind = "InvalidResponse"

\* The response starts with HEADER.
StartsWithHeader == Len(response) >= 1 /\ response[1] = HEADER

\* The EPC span that the low LEN byte of a tag response declares ends past
\* the last byte of the response.
EpcSpanOverruns ==
    /\ Len(response) >= 12
    /\ response[2] = RESP_TYPE_TAG
    /\ 8 + SaturatingSub(response[5], 5) > Len(response)

\* C16 as stated: single_poll returns an error only when the response
\* HEADER is malformed; every response that starts with 0xBB yields Ok.
C16_OnlyHeaderErrors ==
    (op = "single_poll" /\ HasResponse /\ StartsWithHeader) => IsOk(result)

\* C16, amended: single_poll returns an error only when the response HEADER
\* is malformed or when a TAG-type response declares an EPC span that runs
\* past the end of the response; every other response that starts with 0xBB
\* yields Ok, with Ok(None) for a response that is not TAG-type or is
\* shorter than 12 bytes, and Ok(Some(tag)) for a tag response.
C16_SinglePollOutcomes ==
    (op = "single_poll" /\ HasResponse) =>
        /\ result.kind \in {"Ok", "InvalidResponse"}
        /\ result.kind = "InvalidResponse" =>
              \/ Len(response) >= 1 /\ response[1] # HEADER
              \/ StartsWithHeader /\ EpcSpanOverruns
        /\ StartsWithHeader =>
              IF Len(response) < 12 \/ response[2] # RESP_TYPE_TAG
              THEN result = Ok("none", <<>>)
              ELSE IF EpcSpanOverruns THEN result = Err("InvalidResponse")
              ELSE IsOk(result) /\ result.shape = "some"

\* single_poll refused a tag response that declares 64 parameter bytes and
\* carries 8.
C16_Witness ==
    /\ op = "single_poll"
    /\ HasResponse
    /\ Len(response) = 15
    /\ StartsWithHeader
    /\ response[2] = RESP_TYPE_TAG
    /\ response[5] = 64
    /\ result = Err("InvalidResponse")

\* The 16-bit LEN field of the response.
DeclaredLen == response[4] * 256 + response[5]

\* C17: for a TAG-type response the tag returned has rssi = byte 5 and an
\* EPC of exactly LEN - 5 bytes starting at offset 8, LEN being the declared
\* 16-bit length field; whenever that span does not fit inside the
\* response's parameter region (it would reach the checksum byte, the END
\* byte or past the end) the result is InvalidResponse, never a truncated or
\* overrunning EPC.
C17_TagSpan ==
    (/\ op = "single_poll" /\ HasResponse /\ Len(response) >= 12
     /\ StartsWithHeader /\ response[2] = RESP_TYPE_TAG /\ DeclaredLen >= 5) =>
        IF 8 + (DeclaredLen - 5) <= Len(response) - 2
        THEN result = Ok("some",
                         TagInfo(bytes_to_hex(Slice(response, 8, 8 + (DeclaredLen - 5))),
                                 response[6]))
        ELSE result = Err("InvalidResponse")

\* The command code in the frame the operation wrote.
CommandSent == io[2][2][3]

\* C18: every single-shot operation validates the command-echo byte: a
\* response whose byte at offset 2 differs from the command code the
\* operation sent is rejected with InvalidResponse and never produces Ok.
\* Stated by its weaker half, that no such response produces Ok.
C18_EchoValidated ==
    (SingleShot /\ HasResponse /\ Len(response) >= 3
     /\ response[3] # CommandSent) =>
        ~IsOk(result)

\* The response is a well-formed notification of a device error: it echoes
\* the command sent and carries one parameter byte, a status that is not 0.
DeviceErrorNotification ==
    /\ Len(response) = 8
    /\ response[6] # 0
    /\ response = GoodFrame(RESP_TYPE_NOTIFICATION, CommandSent, <<response[6]>>)

\* The operations whose error message is formatted from the status byte.
StatusCarryingOps ==
    {"write_tag_data", "lock_tag", "kill_tag", "block_permalock",
     "nxp_read_protect", "nxp_reset_read_protect", "nxp_change_eas",
     "nxp_eas_alarm", "nxp_change_config", "read_tag_data"}

\* The operations whose successful reply is itself a notification with one
\* parameter byte, the value read: no frame tells the two apart.
OneByteGetters ==
    {"get_region", "get_channel", "get_rf_link_profile", "get_reader_sensitivity"}

\* C19: for every operation other than single_poll, a device error
\* notification [0xBB, 0x01, cmd, 0x00, 0x01, status, checksum, 0x7E] with
\* status # 0 is never reported as success: the operation returns
\* InvalidResponse, and for write_tag_data, lock_tag, kill_tag,
\* block_permalock, the nxp_* commands and read_tag_data the error carries
\* exactly the observed status byte.  Left aside are the getters of one
\* byte, for which the same frame is the value read.
C19_DeviceErrorReported ==
    (/\ SingleShot /\ op \notin {"single_poll"} \cup OneByteGetters
     /\ HasResponse /\ DeviceErrorNotification) =>
        /\ result.kind = "InvalidResponse"
        /\ op \in StatusCarryingOps =>
              result = ErrCode("InvalidResponse", response[6])

\* ------------------------------------------------------------------------
\* Transport calls of one single-shot operation
\* ------------------------------------------------------------------------
\* Is f one command frame, as create_command builds it?
IsCommandFrame(f) ==
    /\ Len(f) >= 7
    /\ f = create_command(f[3], SubSeq(f, 6, Len(f) - 2))

\* C20: every single-shot operation that passes validation performs exactly
\* one clear_input, then exactly one write of one command frame, then
\* exactly one read, in that order; a clear_input error prevents the write,
\* a write error prevents the read, and any of the three transport errors is
\* returned at once as Transport, with no retry.  The log of a call is a
\* prefix of <<clear_input, write, read>>; it is cut short only by the
\* failing call, which is its last entry.
C20_ExecSequence ==
    (SingleShot /\ result.kind # "InvalidParameter") =>
        /\ Len(io) \in 1..3
        /\ io[1] = <<"clear_input">>
        /\ Len(io) >= 2 =>
              /\ Len(io[2]) = 2
              /\ io[2][1] = "write"
              /\ IsCommandFrame(io[2][2])
        /\ Len(io) = 3 => io[3] = <<"read">>
        /\ Len(io) < 3 => result = Err("Transport")
        /\ result.kind # "Transport" => Len(io) = 3

\* lock_tag whose write failed: clear_input and the one write were made, no
\* read, and the caller got Transport.
C20_Witness ==
    /\ op = "lock_tag"
    /\ Len(io) = 2
    /\ io[2][1] = "write"
    /\ io[2][2][3] = LOCK_TAG
    /\ result = Err("Transport")

\* ------------------------------------------------------------------------
\* Specification of the value types and their encodings (types.rs): a value
\* is built, encoded, and the encoding decoded.  op names the type, arg
\* holds the value, response its encoding, result what decoding gave.
\* ------------------------------------------------------------------------
\* Every QueryParams a caller can build around the limit of Q (q is a u8).
QValues == 0..17 \cup {31, 255}
QueryParamsBuilt ==
    {QueryParams(sl, ss, tg, q) :
        sl \in {0, 2, 3}, ss \in 0..3, tg \in {0, 1}, q \in QValues}

\* Every valid SelectParams over two pointers, with masks of every length
\* from 0 to 32 bytes.
SelectParamsBuilt ==
    {SelectParams(tg, ac, mb, pt, Filled(n, 165), tr) :
        tg \in 0..4, ac \in 0..7, mb \in 0..3, pt \in {0, 16909060},
        n \in 0..32, tr \in BOOLEAN}

\* The parameter bytes of a command frame.
ParamsOf(f) == SubSeq(f, 6, Len(f) - 2)


\* The variants of the two closed enumerations.
RegionVariants == {"China900", "Us", "Europe", "China800", "Korea"}
RfLinkProfileVariants ==
    {"Fm0_40kHz", "Fm0_400kHz", "Miller4_250kHz", "Miller4_300kHz",
     "Miller2_40kHzDrm"}
Bytes == 0..255


\* The raw power words tried: every value up to 27 dBm and the ends of u16.
RawPowers == 0..2700 \cup {9999, 10000, 32767, 32768, 65499, 65500, 65535}


\* Tags a caller can hold: three EPC strings (one empty, two that differ in
\* the case of a letter) with two RSSI values each.
TagsBuilt ==
    {TagInfo(epc, rssi) :
        epc \in {<<>>, <<"E", "2">>, <<"e", "2">>, <<"E", "2", "0", "0">>},
        rssi \in {0, 200}}


\* ceil(bits / 8)
CeilDiv8(bits) == IF bits % 8 = 0 THEN bits \div 8 ELSE (bits \div 8) + 1

\* Responses to get_select_param tried: every mask-length byte with the mask
\* bytes it announces, or with one of them missing, and every selector byte.
SelectResponsesTried ==
    {[sel_param |-> 37, mask_len_bits |-> b, complete |-> c] :
        b \in Bytes, c \in BOOLEAN}
    \cup {[sel_param |-> v, mask_len_bits |-> 16, complete |-> TRUE] : v \in Bytes}

\* The mask bytes such a response carries.
MaskCarried(r) ==
    IF r.complete \/ r.mask_len_bits = 0
    THEN Filled(CeilDiv8(r.mask_len_bits), 165)
    ELSE Filled(CeilDiv8(r.mask_len_bits) - 1, 165)

SelectResponse(r) ==
    GoodFrame(RESP_TYPE_NOTIFICATION, GET_SELECT_PARAM,
              <<r.sel_param, 1, 2, 3, 4, r.mask_len_bits, 128>> \o MaskCarried(r))


\* Responses to get_buffer_data tried: the zero status, a non-zero status,
\* and up to MaxBufferEntries entries (RSSI, PC word, EPC) back to back with
\* EPCs of the lengths in EpcLens.
MaxBufferEntries == 3
EpcLens == {1, 4, 8, 12, 13}
BufferEntry(n) == <<200, 48, 0>> \o Filled(n, 226)

RECURSIVE ConcatAll(_)
ConcatAll(seqs) == IF seqs = <<>> THEN <<>> ELSE seqs[1] \o ConcatAll(Tail(seqs))

BufferPayloads ==
    {<<0>>, <<16>>}
    \cup {ConcatAll([i \in 1..Len(ns) |-> BufferEntry(ns[i])]) :
            ns \in UNION {[1..k -> EpcLens] : k \in 1..MaxBufferEntries}}

BufferResponses ==
    {GoodFrame(RESP_TYPE_NOTIFICATION, GET_BUFFER_DATA, p) : p \in BufferPayloads}


\* The word counts read_tag_data accepts: every non-zero u8.
WordCountsAccepted == 1..255

\* The data of a read of word_count words, every byte told from its
\* neighbours, and the complete TAG-type frame that carries it.
TagData(word_count) == [i \in 1..(2 * word_count) |-> (3 * i) % 251]
ReadTagDataFrame(word_count) ==
    GoodFrame(RESP_TYPE_TAG, READ_TAG_DATA, TagData(word_count))


TypeCases == {<<"QueryParams", p>> : p \in QueryParamsBuilt}
    \cup {<<"SelectParams", p>> : p \in SelectParamsBuilt}
    \cup {<<"LockPayload", p>> : p \in LockPayloads}
    \cup {<<"Region code", v>> : v \in Bytes}
    \cup {<<"RfLinkProfile code", v>> : v \in Bytes}
    \cup {<<"Region", r>> : r \in RegionVariants}
    \cup {<<"RfLinkProfile", r>> : r \in RfLinkProfileVariants}
    \cup {<<"TxPower", pw>> : pw \in MIN_POWER_DBM..MAX_POWER_DBM}
    \cup {<<"TxPower raw", raw>> : raw \in RawPowers}
    \cup {<<"TagInfo", <<a, b, c>>>> : a, b, c \in TagsBuilt}
    \cup {<<"SelectParam response", r>> : r \in SelectResponsesTried}
    \cup {<<"Buffer response", r>> : r \in BufferResponses}
    \cup {<<"ReadTagData", wc>> : wc \in WordCountsAccepted}

InitTypes ==
    /\ CodecAtRest
    /\ PollAtRest
    /\ io = <<>>
    /\ response = <<>>
    /\ result = NoResult
    /\ \E c \in TypeCases : op = c[1] /\ arg = c[2]

\* The value is encoded.
Encoded(bytes) ==
    /\ response = <<>>
    /\ response' = bytes
    /\ UNCHANGED <<op, arg, io, result>>
    /\ UNCHANGED <<codecVars, pollVars>>

\* The encoding is decoded.
Decoded(value) ==
    /\ response # <<>>
    /\ result = NoResult
    /\ result' = value
    /\ UNCHANGED <<op, arg, io, response>>
    /\ UNCHANGED <<codecVars, pollVars>>

\* A response arrives and the operation returns what it read from it.
Answered(bytes, value) ==
    /\ response = <<>>
    /\ result = NoResult
    /\ response' = bytes
    /\ result' = value
    /\ UNCHANGED <<op, arg, io>>
    /\ UNCHANGED <<codecVars, pollVars>>

QueryParamsToBytes ==
    /\ op = "QueryParams"
    /\ Encoded(QueryParams_to_bytes(arg))

QueryParamsFromBytes ==
    /\ op = "QueryParams"
    /\ Decoded(Ok("query_params", QueryParams_from_bytes(response)))

\* The parameter block set_select_param writes for the value.
SetSelectParamWrites ==
    /\ op = "SelectParams"
    /\ LET t == TransportOk(GoodFrame(RESP_TYPE_NOTIFICATION, SET_SELECT_PARAM, <<0>>))
       IN Encoded(ParamsOf(set_select_param(arg, t).io[2][2]))

\* get_select_param reads a response that carries that block.
GetSelectParamReads ==
    /\ op = "SelectParams"
    /\ \E overflow_checks \in BOOLEAN :
          LET t == TransportOk(GoodFrame(RESP_TYPE_NOTIFICATION, GET_SELECT_PARAM,
                                         response))
          IN Decoded(get_select_param(t, overflow_checks).result)

LockPayloadToBytes ==
    /\ op = "LockPayload"
    /\ Encoded(LockPayload_to_bytes(arg))

\* get_region reads a well-shaped response that carries the code byte.
GetRegionDecodes ==
    /\ op = "Region code"
    /\ LET reply == GoodFrame(RESP_TYPE_NOTIFICATION, GET_REGION, <<arg>>)
       IN Answered(reply, get_region(TransportOk(reply)).result)

GetRfLinkProfileDecodes ==
    /\ op = "RfLinkProfile code"
    /\ LET reply == GoodFrame(RESP_TYPE_NOTIFICATION, GET_RF_LINK_PROFILE, <<arg>>)
       IN Answered(reply, get_rf_link_profile(TransportOk(reply)).result)

\* The discriminant of a variant is given back to try_from.
RegionAsU8TryFrom ==
    /\ op = "Region"
    /\ Answered(<<RegionAsU8(arg)>>,
                Ok("region", RegionTryFrom(RegionAsU8(arg))))

RfLinkProfileAsU8TryFrom ==
    /\ op = "RfLinkProfile"
    /\ Answered(<<RfLinkProfileAsU8(arg)>>,
                Ok("rf_link_profile", RfLinkProfileTryFrom(RfLinkProfileAsU8(arg))))

\* The two parameter bytes set_tx_power writes for the power.
SetTxPowerWrites ==
    /\ op = "TxPower"
    /\ LET t == TransportOk(GoodFrame(RESP_TYPE_NOTIFICATION, SET_TX_POWER, <<0>>))
       IN Encoded(ParamsOf(set_tx_power(arg, t).io[2][2]))

\* get_tx_power reads a response that carries those two bytes.
GetTxPowerReads ==
    /\ op = "TxPower"
    /\ LET t == TransportOk(GoodFrame(RESP_TYPE_NOTIFICATION, GET_TX_POWER, response))
       IN Decoded(get_tx_power(t).result)

\* get_tx_power reads a response that carries a raw power word.
GetTxPowerDecodes ==
    /\ op = "TxPower raw"
    /\ LET reply == GoodFrame(RESP_TYPE_NOTIFICATION, GET_TX_POWER,
                              <<arg \div 256, arg % 256>>)
       IN Answered(reply, get_tx_power(TransportOk(reply)).result)

\* Three tags are compared with ==, each pair both ways.
TagInfoCompared ==
    /\ op = "TagInfo"
    /\ Answered(<<>>,
                Ok("eq", [i \in 1..3 |-> [j \in 1..3 |-> TagInfo_eq(arg[i], arg[j])]]))

\* get_select_param decodes the response of the device.
GetSelectParamDecodes ==
    /\ op = "SelectParam response"
    /\ \E overflow_checks \in BOOLEAN :
          Answered(SelectResponse(arg),
                   get_select_param(TransportOk(SelectResponse(arg)),
                                    overflow_checks).result)

\* get_buffer_data parses the response of the device.
GetBufferDataDecodes ==
    /\ op = "Buffer response"
    /\ Answered(arg, get_buffer_data(TransportOk(arg)).result)

\* read_tag_data of arg words, the device answering with the complete frame.
ReadTagDataReads ==
    /\ op = "ReadTagData"
    /\ Answered(ReadTagDataFrame(arg),
                read_tag_data(<<0, 0, 0, 0>>, 3, 0, arg,
                              TransportOk(ReadTagDataFrame(arg))).result)

NextTypes ==
    \/ QueryParamsToBytes
    \/ QueryParamsFromBytes
    \/ SetSelectParamWrites
    \/ GetSelectParamReads
    \/ LockPayloadToBytes
    \/ GetRegionDecodes
    \/ GetRfLinkProfileDecodes
    \/ RegionAsU8TryFrom
    \/ RfLinkProfileAsU8TryFrom
    \/ SetTxPowerWrites
    \/ GetTxPowerReads
    \/ GetTxPowerDecodes
    \/ TagInfoCompared
    \/ GetSelectParamDecodes
    \/ GetBufferDataDecodes
    \/ ReadTagDataReads

SpecTypes == InitTypes /\ [][NextTypes]_vars

\* C21: QueryParams round-trips losslessly through its 2-byte encoding: for
\* all sel in {All, NotSl, Sl}, session in S0..S3, target in {A, B} and q in
\* 0..15, from_bytes(to_bytes(p)) = p, with byte0 = 0x10 | sel<<2 | session
\* and byte1 = target<<7 | q<<3.
C21_QueryRoundTrip ==
    (op = "QueryParams" /\ arg.q <= 15) =>
        /\ response # <<>> =>
              response = <<16 + 4 * arg.sel + arg.session,
                           128 * arg.target + 8 * arg.q>>
        /\ result # NoResult => result = Ok("query_params", arg)

\* Sl, S3, B, Q = 15 came back from 0x1F 0xF8.
C21_Witness ==
    /\ op = "QueryParams"
    /\ arg = QueryParams(3, 3, 1, 15)
    /\ response = <<31, 248>>
    /\ result = Ok("query_params", QueryParams(3, 3, 1, 15))

\* C22: a Q value above 15 is never silently truncated or clamped by
\* encoding: for a QueryParams with q > 15, QueryParams::to_bytes yields no
\* 2-byte encoding whose q field holds another value (such as q mod 16).
\* The q field has four bits, so every encoding of such a value does.
C22_NoSilentTruncation ==
    (op = "QueryParams" /\ arg.q > 15 /\ Len(response) = 2) =>
        BitAnd(Shr(response[2], 3), 15) = arg.q

\* C23: SelectParams round-trips for every mask of 0 to 32 bytes: the
\* parameter block written by set_select_param (selector byte
\* target<<5 | action<<2 | mem_bank, 4-byte big-endian pointer, mask-length
\* byte equal to 8 x mask.len(), truncate byte 0x80/0x00, mask bytes), when
\* returned as the parameters of a get_select_param response, decodes to a
\* SelectParams equal to the original in every field.
C23_SelectRoundTrip ==
    op = "SelectParams" =>
        /\ response # <<>> =>
              response =
                  <<32 * arg.target + 4 * arg.action + arg.mem_bank,
                    arg.pointer \div 16777216, (arg.pointer \div 65536) % 256,
                    (arg.pointer \div 256) % 256, arg.pointer % 256,
                    8 * Len(arg.mask),
                    IF arg.truncate THEN 128 ELSE 0>> \o arg.mask
        /\ result # NoResult => result = Ok("select_params", arg)

\* ------------------------------------------------------------------------
\* The lock payload read by its zone layout
\* ------------------------------------------------------------------------
\* The 24-bit value of a 3-byte encoding, its 10-bit mask field (bits
\* 19..10) and its 10-bit action field (bits 9..0).
PayloadValue(bytes) == bytes[1] * 65536 + bytes[2] * 256 + bytes[3]
MaskField(bytes) == (PayloadValue(bytes) \div 1024) % 1024
ActionField(bytes) == PayloadValue(bytes) % 1024

\* The lowest bit of the zone of a target: User = bit 0, TID = bit 2,
\* EPC = bit 4, AccessPassword = bit 6, KillPassword = bit 8.
ZoneBit(target) == 2 * (target - 1)

\* C24: for every LockPayload (5 targets x 4 actions), to_bytes yields a
\* 20-bit value mask||action in 3 bytes (top 4 bits of byte 0 zero) whose
\* 10-bit mask field has exactly the two bits of the addressed zone set and
\* whose 10-bit action field holds the 2-bit action code in that same zone
\* and zero in every other zone.
C24_LockPayloadLayout ==
    (op = "LockPayload" /\ response # <<>>) =>
        /\ Len(response) = 3
        /\ \A i \in 1..3 : response[i] \in 0..255
        /\ response[1] < 16
        /\ MaskField(response) = 3 * 2^ZoneBit(arg.target)
        /\ ActionField(response) = arg.action * 2^ZoneBit(arg.target)

\* PermLock of the kill password: mask 0x300, action 0x300, bytes 0C 03 00.
C24_Witness ==
    /\ op = "LockPayload"
    /\ arg = LockPayload(5, 3)
    /\ response = <<12, 3, 0>>

\* The payload a 3-byte encoding stands for by the zone layout: the target
\* whose zone the mask field selects, and the two action bits of that zone.
ZoneDecode(bytes) ==
    LET target == CHOOSE tg \in 1..5 : MaskField(bytes) = 3 * 2^ZoneBit(tg)
    IN LockPayload(target, (ActionField(bytes) \div 2^ZoneBit(target)) % 4)

\* C25: LockPayload round-trips through its 3-byte encoding: for all 20
\* (target, action) pairs, decoding to_bytes(p) by the zone layout recovers
\* exactly p, so two distinct payloads never share an encoding.
C25_LockRoundTrip ==
    (op = "LockPayload" /\ response # <<>>) =>
        /\ \E tg \in 1..5 : MaskField(response) = 3 * 2^ZoneBit(tg)
        /\ ZoneDecode(response) = arg
        /\ \A other \in LockPayloads :
              LockPayload_to_bytes(other) = response => other = arg

\* Lock of the EPC bank: bytes 00 C0 10 stand for (Epc, Lock) alone.
C25_Witness ==
    /\ op = "LockPayload"
    /\ arg = LockPayload(3, 1)
    /\ response = <<0, 192, 16>>
    /\ ZoneDecode(response) = LockPayload(3, 1)

\* ------------------------------------------------------------------------
\* Closed enumerations
\* ------------------------------------------------------------------------
\* C26: region and RF link profile decode from closed enumerations with no
\* default: for a well-shaped response, get_region returns Ok(r) exactly
\* when the code byte is one of 0x01, 0x02, 0x03, 0x04, 0x06 and
\* get_rf_link_profile returns Ok(p) exactly when it is one of 0xD0..0xD4,
\* with try_from(v as u8) = v for every variant; every other byte value
\* yields InvalidResponse.
C26_ClosedEnumerations ==
    /\ (op = "Region code" /\ result # NoResult) =>
          IF arg \in {1, 2, 3, 4, 6}
          THEN /\ IsOk(result)
               /\ result.value \in RegionVariants
               /\ RegionAsU8(result.value) = arg
          ELSE result = Err("InvalidResponse")
    /\ (op = "RfLinkProfile code" /\ result # NoResult) =>
          IF arg \in 208..212
          THEN /\ IsOk(result)
               /\ result.value \in RfLinkProfileVariants
               /\ RfLinkProfileAsU8(result.value) = arg
          ELSE result = Err("InvalidResponse")
    /\ (op = "Region" /\ result # NoResult) => result = Ok("region", arg)
    /\ (op = "RfLinkProfile" /\ result # NoResult) =>
          result = Ok("rf_link_profile", arg)

\* Code 0x05, between China800 and Korea, was refused.
C26_Witness ==
    /\ op = "Region code"
    /\ arg = 5
    /\ response = <<187, 1, 8, 0, 1, 5, 15, 126>>
    /\ result = Err("InvalidResponse")

\* ------------------------------------------------------------------------
\* TX power
\* ------------------------------------------------------------------------
\* C27: TX power is carried as dBm x 100 in a 2-byte big-endian field: for
\* every p in 18..26 the two parameter bytes written by set_tx_power(p) are
\* the big-endian form of 100*p (no 16-bit overflow), and get_tx_power
\* applied to a response carrying those two bytes with LEN = 2 returns p;
\* get_tx_power returns floor(raw/100) for any raw value.
C27_TxPowerField ==
    /\ op = "TxPower" =>
          /\ 100 * arg <= U16_MAX
          /\ response # <<>> =>
                response = <<(100 * arg) \div 256, (100 * arg) % 256>>
          /\ result # NoResult => result = Ok("u16", arg)
    /\ (op = "TxPower raw" /\ result # NoResult) =>
          /\ response[4] = 0 /\ response[5] = 2
          /\ result = Ok("u16", arg \div 100)

\* 26 dBm went out as 0x0A 0x28 and came back as 26.
C27_Witness ==
    /\ op = "TxPower"
    /\ arg = 26
    /\ response = <<10, 40>>
    /\ result = Ok("u16", 26)

\* ------------------------------------------------------------------------
\* Equality of tags
\* ------------------------------------------------------------------------
\* C29: TagInfo equality is an equivalence relation determined by epc
\* alone: two TagInfo values are equal exactly when their epc strings are
\* equal, whatever their rssi values.
C29_TagEquality ==
    (op = "TagInfo" /\ result # NoResult) =>
        LET eq == result.value
        IN /\ \A i, j \in 1..3 : eq[i][j] <=> (arg[i].epc = arg[j].epc)
           /\ \A i \in 1..3 : eq[i][i]
           /\ \A i, j \in 1..3 : eq[i][j] => eq[j][i]
           /\ \A i, j, k \in 1..3 : (eq[i][j] /\ eq[j][k]) => eq[i][k]

\* Two tags with EPC "E2" and RSSI 0 and 200 compared equal, and unequal to
\* the tag with EPC "e2".
C29_Witness ==
    /\ op = "TagInfo"
    /\ arg = <<TagInfo(<<"E", "2">>, 0), TagInfo(<<"E", "2">>, 200),
               TagInfo(<<"e", "2">>, 0)>>
    /\ result # NoResult
    /\ result.value[1][2]
    /\ ~result.value[1][3]

\* ------------------------------------------------------------------------
\* Select mode after set_select_param
\* ------------------------------------------------------------------------
\* C28: a successful set_select_param both sets the Select parameters and
\* enables Select mode 0x02: the frames written to the transport during the
\* call include a set-select-mode command (0x12) with parameter 0x02 in
\* addition to the set-select-param command (0x0C).
C28_SelectModeEnabled ==
    (op = "set_select_param" /\ IsOk(result)) =>
        /\ \E i \in 1..Len(io) :
              /\ io[i][1] = "write"
              /\ io[i][2][3] = SET_SELECT_PARAM
        /\ \E i \in 1..Len(io) :
              io[i] = <<"write", create_command(SET_SELECT_MODE, <<2>>)>>

\* ------------------------------------------------------------------------
\* Completion of the round-bounded poll when the device never falls silent
\* ------------------------------------------------------------------------
\* The device sends what it sent once more (it is still taking inventory):
\* the reads that follow bring the same bytes again.  It does so between
\* two frames, when the driver has taken all that came and holds nothing.
\* MaxRepeatedTags bounds the tags already delivered when it does so; a
\* stream that delivers no tag repeats without end.
MaxRepeatedTags == 2

DeviceRepeats ==
    /\ pc = "reading"
    /\ op \in RoundsOps
    /\ Len(stream) > 0
    /\ pos = Len(stream)
    /\ buffer = <<>>
    /\ Len(delivered) <= MaxRepeatedTags
    /\ pos' = 0
    /\ UNCHANGED <<pc, pieces, buffer, tag_count, tags, delivered, expired,
                   drain_buf, fault_mark>>
    /\ UNCHANGED <<codecVars, execVars, silent>>

NextRounds ==
    \/ BeginRoundsShort
    \/ Tick
    \/ ReadData
    \/ ReadNothing
    \/ ReadFails
    \/ ExtractNone
    \/ ExtractGarbage
    \/ ExtractEndOfRound
    \/ ExtractFrame
    \/ DeviceRepeats
    \/ Return

\* Time advances, every transport call returns and every step of the
\* driver's own loop is taken; whether the device goes on sending is its own
\* affair.
FairRounds ==
    /\ InitPoll
    /\ [][NextRounds]_vars
    /\ WF_vars(Tick)
    /\ WF_vars(ReadData \/ ReadNothing \/ ReadFails)
    /\ WF_vars(ExtractNone \/ ExtractGarbage \/ ExtractEndOfRound \/ ExtractFrame)

\* C30: multiple_poll_with_callback eventually returns for every transport
\* behaviour, assuming time advances and each transport call returns: in
\* particular it returns when every read delivers a non-empty batch of
\* bytes and no end-of-round notification ever appears in the stream.
C30_RoundsPollReturns ==
    (op = "multiple_poll_with_callback" /\ pc = "reading") ~> (pc = "returned")

\* ------------------------------------------------------------------------
\* Transport trace and end of the round-bounded poll
\* ------------------------------------------------------------------------
\* The multi-poll command for a round count, byte for byte.
RoundsPollFrame(rounds) ==
    <<187, 0, 39, 0, 3, 34, rounds \div 256, rounds % 256,
      (39 + 3 + 34 + (rounds \div 256) + (rounds % 256)) % 256, 126>>

\* The round-bounded poll has entered its loop, or has left it with a value.
RoundsUnderWay ==
    /\ op \in RoundsOps
    /\ arg >= 1
    /\ \/ pc \in {"reading", "extracting"}
       \/ pc = "returned" /\ IsOk(result)

\* The index of the first end-of-round notification the device sends, 0 if
\* it sends none.
FirstEndOfRound ==
    IF \E k \in 1..Len(pieces) : pieces[k].kind = "end_of_round"
    THEN CHOOSE k \in 1..Len(pieces) :
             /\ pieces[k].kind = "end_of_round"
             /\ \A j \in 1..(k - 1) : pieces[j].kind # "end_of_round"
    ELSE 0

\* The bytes the device sends up to and including that notification.
UpToEndOfRound == Flatten(SubSeq(pieces, 1, FirstEndOfRound))

C31_OneWrite ==
    /\ RoundsUnderWay =>
          io = <<<<"clear_input">>, <<"write", RoundsPollFrame(arg)>>>>
    /\ (op \in RoundsOps /\ arg >= 1) =>
          \A i \in 1..Len(io) :
              io[i][1] = "write" => (i = 2 /\ io[1] = <<"clear_input">>)
    /\ (/\ RoundsUnderWay
        /\ pc = "returned"
        /\ FirstEndOfRound > 0
        /\ pos >= Len(UpToEndOfRound)) =>
          /\ delivered = TagsOfFrames(FramesIn(UpToEndOfRound, TRUE))
          /\ result = PollResult(op, Len(delivered), delivered)

C31_EndOfRoundStep ==
    /\ (op \in RoundsOps /\ FrameLeaves /\ EndOfRoundSignature(frame)) =>
          /\ pc' = "returned"
          /\ result' = PollResult(op, tag_count, tags)
          /\ delivered' = delivered
          /\ io' = io
    /\ (op \in RoundsOps /\ op' = op /\ pc # "idle") => io' = io

\* C31: a multiple_poll_with_callback session with rounds >= 1 writes
\* exactly one frame in total, the multi-poll command with parameters
\* [0x22, rounds_hi, rounds_lo] (rounds big-endian), preceded by
\* clear_input; on the first end-of-round notification extracted it returns
\* Ok(count) at once, so frames located after that notification in the
\* stream produce no callback, and it never writes a re-issue or a
\* stop-polling command.
C31_RoundsPollTrace == [](C31_OneWrite) /\ [][C31_EndOfRoundStep]_vars

\* 258 rounds were asked for; the notification came first, a tag frame after
\* it was read in the same batch, and the call returned a count of 0 with
\* one frame written.
C31_Witness ==
    /\ op = "multiple_poll_with_callback"
    /\ arg = 258
    /\ pieces = <<EndOfRoundPiece, PlainTagA>>
    /\ pos = Len(stream)
    /\ pc = "returned"
    /\ result = Ok("count", 0)
    /\ delivered = <<>>
    /\ io = <<<<"clear_input">>, <<"write", <<187, 0, 39, 0, 3, 34, 1, 2, 79, 126>>>>>>

\* ------------------------------------------------------------------------
\* The accumulation buffer of the streaming polls
\* ------------------------------------------------------------------------
\* The bytes after the last 0x7E of a sequence; all of it if it has none.
RECURSIVE AfterLastEnd(_)
AfterLastEnd(bytes) ==
    IF bytes = <<>> THEN <<>>
    ELSE IF bytes[Len(bytes)] = 126 THEN <<>>
    ELSE Append(AfterLastEnd(SubSeq(bytes, 1, Len(bytes) - 1)), bytes[Len(bytes)])

\* One pass of the frame-extraction loop.
ExtractionPass == ExtractGarbage \/ ExtractEndOfRound \/ ExtractFrame

C32_PassStep ==
    ExtractionPass =>
        /\ Len(buffer') < Len(buffer)
        /\ \E k \in 1..Len(buffer) :
              /\ buffer[k] = 126
              /\ \A j \in 1..(k - 1) : buffer[j] # 126
              /\ buffer' = SubSeq(buffer, k + 1, Len(buffer))

\* The extraction loop has run to its end: the poll is between reads or has
\* left its read loop by the deadline.
C32_BetweenReads ==
    (op \in PollOps /\ pc \in {"reading", "draining"}) =>
        /\ \A i \in 1..Len(buffer) : buffer[i] # 126
        /\ buffer = AfterLastEnd(BytesRead)

\* C32: accumulation-buffer invariant of both streaming polls: every pass of
\* the frame-extraction loop removes at least one byte from the buffer (so
\* the loop terminates), and each time the loop finishes the buffer contains
\* no END byte (0x7E), holding exactly the bytes received after the last END
\* byte seen so far.
C32_BufferInvariant == [](C32_BetweenReads) /\ [][C32_PassStep]_vars

\* Bytes up to an END were dropped and the loop ended with the byte that
\* came after it still in the buffer.
C32_Witness ==
    /\ op \in PollOps
    /\ pc = "reading"
    /\ pieces = <<StrayEndPiece, NoisePiece>>
    /\ pos = 3
    /\ buffer = <<65>>

\* ------------------------------------------------------------------------
\* get_select_param over every mask-length byte and every selector byte
\* ------------------------------------------------------------------------
\* C33: get_select_param recomputes the mask byte length as ceil(bits/8) for
\* every value 0..255 of the mask-length byte at offset 10: it returns the
\* ceil(bits/8) mask bytes starting at offset 12 when the response holds
\* them plus checksum+END, and InvalidResponse otherwise, with no 8-bit
\* overflow and no panic for any value (including 249..255).
C33_MaskLengthRecomputed ==
    (op = "SelectParam response" /\ result # NoResult) =>
        IF Len(response) >= 12 + CeilDiv8(arg.mask_len_bits) + 2
        THEN /\ IsOk(result)
             /\ result.value.mask
                    = SubSeq(response, 13, 12 + CeilDiv8(arg.mask_len_bits))
        ELSE result = Err("InvalidResponse")

\* C34: get_select_param decodes every selector byte 0..255 without failing:
\* target = bits 7..5 with codes 5, 6 and 7 falling back to S0, action =
\* bits 4..2 (all 8 codes defined), mem_bank = bits 1..0 (all 4 codes
\* defined); a response of valid length with matching header, type and
\* command is never rejected because of the selector byte's value.
C34_SelectorDecoded ==
    (/\ op = "SelectParam response"
     /\ result # NoResult
     /\ arg.mask_len_bits = 16
     /\ arg.complete) =>
        /\ IsOk(result)
        /\ result.value.target
               = (IF arg.sel_param \div 32 <= 4 THEN arg.sel_param \div 32 ELSE 0)
        /\ result.value.action = (arg.sel_param \div 4) % 8
        /\ result.value.mem_bank = arg.sel_param % 4
        /\ result.value.mask = <<165, 165>>
        /\ result.value.pointer = 16909060
        /\ result.value.truncate

\* Selector byte 0xFF: target code 7 became S0, action 7, bank User.
C34_Witness ==
    /\ op = "SelectParam response"
    /\ arg.sel_param = 255
    /\ response = SelectResponse(arg)
    /\ result = Ok("select_params",
                   SelectParams(0, 7, 3, 16909060, <<165, 165>>, TRUE))

\* ------------------------------------------------------------------------
\* get_buffer_data: the entries and the parameter region
\* ------------------------------------------------------------------------
\* The parameter region of a response: the LEN bytes from offset 5.
ParamRegion(r) == SubSeq(r, 6, 5 + r[4] * 256 + r[5])

\* The hex strings of the runs of consecutive bytes of a sequence.
HexOfRuns(bytes) ==
    {bytes_to_hex(SubSeq(bytes, a, b)) : a \in 1..(Len(bytes) + 1), b \in 0..Len(bytes)}

\* C35: get_buffer_data returns an empty list for the single-byte
\* zero-status payload, and otherwise every TagInfo it returns has an EPC
\* made only of bytes inside the parameter region declared by LEN: no
\* returned EPC contains the frame's checksum byte or END byte, and entry
\* parsing never reads past the end of the response or panics for any
\* response of 7 to 100 bytes.
C35_BufferEntriesInRegion ==
    (op = "Buffer response" /\ result # NoResult) =>
        /\ result.shape = "tags"
        /\ ParamRegion(response) = <<0>> => result.value = <<>>
        /\ \A i \in 1..Len(result.value) :
              result.value[i].epc \in HexOfRuns(ParamRegion(response))

\* ------------------------------------------------------------------------
\* read_tag_data over every accepted word count
\* ------------------------------------------------------------------------
\* C36: read_tag_data returns the data sized from the response LEN field
\* for every accepted word_count: for each word_count in 1..255, when the
\* device answers with a complete TAG-type frame whose LEN is 2 x word_count
\* and which carries that many data bytes, read_tag_data returns Ok with
\* exactly those bytes (bytes 5 .. 5+LEN), never the checksum or END byte.
C36_ReadSizedFromLen ==
    (op = "ReadTagData" /\ result # NoResult) =>
        /\ Len(response) = 7 + 2 * arg
        /\ response[4] * 256 + response[5] = 2 * arg
        /\ result = Ok("bytes", SubSeq(response, 6, 5 + 2 * arg))

\* ------------------------------------------------------------------------
\* Every public operation in one specification: the single-shot operations
\* and both streaming polls, one call after the other
\* ------------------------------------------------------------------------
NextAll ==
    \/ NextCalls
    \/ BeginDurationShort
    \/ StopPolling
    \/ DrainData
    \/ DrainEnds

SpecAll == InitExec /\ [][NextAll]_vars

\* The command codes each public operation sends (reader.rs 23..59 and the
\* create_command call sites).
CommandCodes ==
    [get_firmware_version |-> {3}, single_poll |-> {34},
     multiple_poll |-> {39}, multiple_poll_with_callback |-> {39},
     poll_for_duration |-> {39, 40}, poll_for_duration_with_callback |-> {39, 40},
     get_select_param |-> {11}, set_select_param |-> {12},
     set_select_mode |-> {18}, get_tx_power |-> {183}, set_tx_power |-> {182},
     set_region |-> {7}, get_region |-> {8}, get_query_param |-> {13},
     set_query_param |-> {14}, set_baud_rate |-> {17}, insert_channel |-> {169},
     get_channel |-> {170}, set_channel |-> {171}, set_auto_freq_hop |-> {173},
     set_continuous_carrier |-> {176}, read_tag_data |-> {57},
     write_tag_data |-> {73}, lock_tag |-> {130}, kill_tag |-> {101},
     inventory_buffer |-> {24}, get_buffer_data |-> {41}, clear_buffer |-> {42},
     get_rf_link_profile |-> {106}, set_rf_link_profile |-> {105},
     block_permalock |-> {211}, nxp_change_config |-> {224},
     nxp_read_protect |-> {225}, nxp_reset_read_protect |-> {226},
     nxp_change_eas |-> {227}, nxp_eas_alarm |-> {228}, impinj_monza_qt |-> {229},
     set_reader_sensitivity |-> {240}, get_reader_sensitivity |-> {241}]

\* f is one well-formed command frame carrying one of the given codes.
WellFormedCommand(f, codes) ==
    /\ Len(f) >= 7
    /\ f[1] = 187
    /\ f[2] = 0
    /\ f[3] \in codes
    /\ f[4] * 256 + f[5] = Len(f) - 7
    /\ f[Len(f) - 1] = SumOfBytes(f, 2, Len(f) - 2)
    /\ f[Len(f)] = 126
    /\ \A i \in 1..Len(f) : f[i] \in 0..255

\* C37: after any sequence of public operations with any arguments, every
\* byte sequence that was passed to transport.write is exactly one
\* well-formed command frame: first byte 0xBB, type 0x00, a command code of
\* the operation invoked, LEN equal to the number of parameter bytes, a
\* correct 8-bit checksum, last byte 0x7E.
C37_WritesAreCommandFrames ==
    \A i \in 1..Len(io) :
        io[i][1] = "write" =>
            /\ Len(io[i]) = 2
            /\ op \in DOMAIN CommandCodes
            /\ WellFormedCommand(io[i][2], CommandCodes[op])

\* kill_tag wrote its frame: four password bytes, LEN 4, checksum 0x7D.
C37_Witness ==
    /\ op = "kill_tag"
    /\ Len(io) >= 2
    /\ io[2] = <<"write", <<187, 0, 101, 0, 4, 18, 52, 86, 120, 125, 126>>>>

\* ------------------------------------------------------------------------
\* Nothing of one call is left for the next
\* ------------------------------------------------------------------------
\* Between calls the driver is as it was when constructed.
C38_AtRestBetweenCalls ==
    op = "none" =>
        /\ arg = 0 /\ io = <<>> /\ response = <<>> /\ result = NoResult
        /\ pc = "idle" /\ pos = 0 /\ buffer = <<>>
        /\ tag_count = 0 /\ tags = <<>> /\ delivered = <<>>
        /\ expired = FALSE /\ drain_buf = <<>>

\* The accumulation buffer of a poll holds bytes read during that poll only:
\* it is the tail of what the call has read so far.
C38_BufferOfThisCall ==
    (op \in PollOps /\ pc \in {"reading", "extracting", "draining", "returned"}) =>
        /\ Len(buffer) <= pos
        /\ buffer = SubSeq(stream, pos - Len(buffer) + 1, pos)

\* A call begins between calls and ends there; a poll begins with an empty
\* buffer and a single-shot operation leaves the poll's variables alone.
C38_CallStep ==
    /\ op' # op => (op = "none" \/ op' = "none")
    /\ (op = "none" /\ op' \in PollOps) =>
          buffer' = <<>> /\ pos' = 0 /\ delivered' = <<>> /\ tag_count' = 0
    /\ (op = "none" /\ op' \notin PollOps \cup {"none"}) =>
          buffer' = <<>> /\ pc' = "idle" /\ delivered' = <<>>
    /\ (op # "none" /\ pc = "returned" /\ buffer # <<>>) =>
          (op' = "none" /\ buffer' = <<>>)

\* C38: the driver keeps no state between operations other than the
\* transport: the result of any operation depends only on its arguments and
\* on what the transport returns during that call, and bytes left in a
\* streaming poll's accumulation buffer when the poll ends (an incomplete
\* trailing frame) are never combined with bytes read by a later poll or
\* single-shot operation.
C38_NoStateBetweenCalls ==
    [](C38_AtRestBetweenCalls /\ C38_BufferOfThisCall) /\ [][C38_CallStep]_vars

\* A poll has ended with the head of a frame still in its buffer.
C38_Witness ==
    /\ op \in PollOps
    /\ pc = "returned"
    /\ IsOk(result)
    /\ pieces = <<CutFramePiece>>
    /\ buffer = <<187, 2>>

====
